---------------------------- MODULE Spec2Model ----------------------------
(***************************************************************************)
(* A model of model.py: the parity-check-matrix algebra (classical_pcm,    *)
(* hypergraph_pcm) and the syndrome-extraction circuit builder             *)
(* StabilizerModel (repetition code and surface code).                     *)
(*                                                                         *)
(* A circuit is a sequence of instructions [name, targets, args].  The     *)
(* targets of DETECTOR and OBSERVABLE_INCLUDE are the negative lookback    *)
(* offsets given to stim.target_rec; every other instruction targets       *)
(* qubits.  `circuit * rounds` is modelled by its flattening: the body     *)
(* repeated `rounds` times, which is what the measurement record sees.     *)
(* Probabilities are integers in a fixed small unit, chosen as multiples   *)
(* of 15 so that p / 15 and p / 3 are exact.                               *)
(***************************************************************************)
EXTENDS Integers, Sequences, FiniteSets, TLC

VARIABLES
    pc,              \* position of the running call
    circuit_arg,     \* the `circuit` argument (empty when None)
    code,            \* main_code, the family part of the `code` argument
    subcode,         \* the part after ":" ("None" when absent)
    distance,        \* code_params["distance"]
    scale,           \* code_params["scale"], <<R, C>>
    rounds,          \* self.rounds
    clist1,          \* code_params["clist1"]
    clist2,          \* code_params["clist2"]
    pos,             \* code_params["pos"] ("missing" when the key is absent)
    noise_args,      \* the four noise arguments as passed by the caller
    noise_circuit,   \* self.noise_circuit
    noise_data,      \* self.noise_data
    noise_z_check,   \* self.noise_z_check
    noise_x_check,   \* self.noise_x_check
    qubits,          \* self.qubits
    data_qubits,     \* self.data_qubits
    z_check_qubits,  \* self.z_check_qubits
    x_check_qubits,  \* self.x_check_qubits
    circuit,         \* self.circuit
    body,            \* the local `circuit` of a builder: one round
    tag,             \* for each instruction of self.circuit, the round that emitted it
    k,               \* loop index of the final-detector loops
    row,             \* `row` of _surface_code's final loop
    skip,            \* `skip` of _surface_code's final loop
    err,             \* the exception that ended construction, if any
    clist,           \* argument of classical_pcm
    num_bits,        \* classical_pcm: clist.count("B")
    i,               \* classical_pcm: outer loop index
    peak_i,          \* classical_pcm: inner scan index
    one_hot_vec,     \* classical_pcm: current row
    H,               \* classical_pcm: the list of rows collected so far
    result,          \* classical_pcm: the array returned, [shape, rows]
    H1,              \* argument of hypergraph_pcm
    H2,              \* argument of hypergraph_pcm
    HX,              \* result of hypergraph_pcm
    HZ,              \* result of hypergraph_pcm
    adjacency_matrix,    \* argument of intersecting_edges
    positions,           \* argument of intersecting_edges: node -> (x, y)
    edges,               \* intersecting_edges: the list of edges
    intersecting_edges   \* intersecting_edges: the set of pairs collected

builderVars ==
    <<pc, circuit_arg, code, subcode, distance, scale, rounds, clist1, clist2,
      pos, noise_args, noise_circuit, noise_data, noise_z_check,
      noise_x_check, qubits, data_qubits, z_check_qubits, x_check_qubits, circuit, body, tag, k, row, skip, err>>

builderVars_noPcErr ==
    <<circuit_arg, code, subcode, distance, scale, rounds, clist1, clist2,
      pos, noise_args, noise_circuit, noise_data, noise_z_check,
      noise_x_check, qubits, data_qubits, z_check_qubits, x_check_qubits, circuit, body, tag, k, row, skip>>

pcmVars ==
    <<clist, num_bits, i, peak_i, one_hot_vec, H, result>>

hgpVars ==
    <<H1, H2, HX, HZ>>

edgeVars ==
    <<adjacency_matrix, positions, edges, intersecting_edges>>

vars ==
    <<builderVars, pcmVars, hgpVars, edgeVars>>

---------------------------------------------------------------------------
\* Bounds of the model.

MaxDistance ==
    3

MaxRounds ==
    2

MaxHalf ==
    2

MaxClistLen ==
    4

MaxIndex ==
    2

MaxCells ==
    4

MaxNodes ==
    4

MaxCoord ==
    1

MaxHgpLen ==
    3

---------------------------------------------------------------------------
\* Generic helpers.

RECURSIVE Repeat(_, _)
Repeat(s, n) ==
    IF n <= 0 THEN <<>> ELSE s \o Repeat(s, n - 1)

Const(x, n) ==
    [j \in 1..n |-> x]

\* np.array(rows): a list of n rows of equal length m has shape (n, m); an
\* empty list has shape (0,).
NpArray(rows) ==
    [shape |-> IF rows = <<>> THEN <<0>> ELSE <<Len(rows), Len(rows[1])>>,
     rows |-> rows]

NoArray ==
    [shape |-> <<>>, rows |-> <<>>]

Ins(name, targets, args) ==
    [name |-> name, targets |-> targets, args |-> args]

\* Python's s[a::2] on np.arange(n): a, a+2, ... below n.
Stride2(n, a) ==
    [j \in 1..((n - a + 1) \div 2) |-> a + 2 * (j - 1)]

---------------------------------------------------------------------------
\* Noise arguments and their normalisation (StabilizerModel.__init__).

NoiseCircuitParams ==
    15

NoiseQubitParams ==
    3

NoneArg ==
    [kind |-> "none", p |-> 0, v |-> <<>>]

ScalarArg(p) ==
    [kind |-> "scalar", p |-> p, v |-> <<>>]

VectorArg(v) ==
    [kind |-> "vector", p |-> 0, v |-> v]

NoError ==
    [type |-> "none", expected |-> 0, given |-> 0]

TypeError ==
    [type |-> "TypeError", expected |-> 0, given |-> 0]

AssertionError(expected, given) ==
    [type |-> "AssertionError", expected |-> expected, given |-> given]

ValueError ==
    [type |-> "ValueError", expected |-> 0, given |-> 0]

\* Python's len(x): defined on a list, a TypeError on a number or on None.
HasLen(arg) ==
    arg.kind = "vector"

\* NormalizeOne spreading a vector as it spreads a number: every entry
\* divided by n.
NormalizeOneRescaled(arg, n, shown) ==
    IF arg.kind = "scalar"
    THEN [err |-> NoError, val |-> Const(arg.p \div n, n)]
    ELSE IF ~HasLen(arg)
    THEN [err |-> TypeError, val |-> <<>>]
    ELSE IF Len(arg.v) = n
    THEN [err |-> NoError, val |-> [j \in 1..n |-> arg.v[j] \div n]]
    ELSE IF ~HasLen(shown)
    THEN [err |-> TypeError, val |-> <<>>]
    ELSE [err |-> AssertionError(n, Len(shown.v)), val |-> <<>>]

\* One of the four if/else blocks: a number is spread evenly over n
\* parameters; anything else must have length n and is stored as it is.
\* `shown` is the argument whose length the assertion message formats.
NormalizeOne(arg, n, shown) ==
    IF arg.kind = "scalar"
    THEN [err |-> NoError, val |-> Const(arg.p \div n, n)]
    ELSE IF ~HasLen(arg)
    THEN [err |-> TypeError, val |-> <<>>]
    ELSE IF Len(arg.v) = n
    THEN [err |-> NoError, val |-> arg.v]
    ELSE IF ~HasLen(shown)
    THEN [err |-> TypeError, val |-> <<>>]
    ELSE [err |-> AssertionError(n, Len(shown.v)), val |-> <<>>]

\* The stored value of a noise attribute; `none` marks Python's None.
Stored(val) ==
    [none |-> FALSE, v |-> val]

Unset ==
    [none |-> TRUE, v |-> <<>>]

---------------------------------------------------------------------------
\* Circuits.

\* The concatenation of ss[lo..hi].
RECURSIVE ConcatRange(_, _, _)
ConcatRange(ss, lo, hi) ==
    IF lo > hi THEN <<>>
    ELSE IF lo = hi THEN ss[lo]
    ELSE LET mid == (lo + hi) \div 2
         IN  ConcatRange(ss, lo, mid) \o ConcatRange(ss, mid + 1, hi)

Concat(ss) ==
    ConcatRange(ss, 1, Len(ss))

\* circuit.append("PAULI_CHANNEL_*", targets, noise), guarded by `is not None`.
Channel(name, targets, noise) ==
    IF noise.none THEN <<>> ELSE <<Ins(name, targets, noise.v)>>

\* stim.target_rec(offset) as a DETECTOR / OBSERVABLE_INCLUDE target.
Detector(offsets) ==
    Ins("DETECTOR", offsets, <<>>)

---------------------------------------------------------------------------
\* _repetition_code.

\* The initial measurement of the check qubits (the anchor of round 1).
RepAnchorInstrs(zq) ==
    <<Ins("M", zq, <<>>)>>

\* The stabilizer measurement of one check qubit m.
RepCheckInstrs(m, nc) ==
    <<Ins("CNOT", <<m - 1, m>>, <<>>), Ins("CNOT", <<m + 1, m>>, <<>>)>>
    \o Channel("PAULI_CHANNEL_2", <<m - 1, m>>, nc)
    \o Channel("PAULI_CHANNEL_2", <<m + 1, m>>, nc)

\* RepRoundDetector looking back over d + 1 entries, as if the data qubits
\* were counted.
RepRoundDetectorLong(kk, dist) ==
    Detector(<<-1 - kk, -1 - kk - dist - 1>>)

\* The detector of check index kk within a round.
RepRoundDetector(kk, dist) ==
    Detector(<<-1 - kk, -1 - kk - dist>>)

\* The local `circuit`: one round.
RepRoundInstrs(zq, dq, dist, nc, nd, nzc) ==
    Concat([j \in 1..Len(zq) |-> RepCheckInstrs(zq[j], nc)])
    \o Channel("PAULI_CHANNEL_1", dq, nd)
    \o Channel("PAULI_CHANNEL_1", zq, nzc)
    \o <<Ins("MR", zq, <<>>)>>
    \o [j \in 1..Len(zq) |-> RepRoundDetector(j - 1, dist)]

\* RepFinalDetector with the check lookback not moved past the extra data
\* measurement.
RepFinalDetectorShort(kk, dist) ==
    Detector(<<-1 - kk, -2 - kk, -1 - kk - dist>>)

\* The detector of index kk after the final data measurement.
RepFinalDetector(kk, dist) ==
    Detector(<<-1 - kk, -2 - kk, -2 - kk - dist>>)

\* RepObservableInstr naming the last two data measurements.
RepObservableInstrTwo ==
    Ins("OBSERVABLE_INCLUDE", <<-1, -2>>, <<0>>)

RepObservableInstr ==
    Ins("OBSERVABLE_INCLUDE", <<-1>>, <<0>>)

---------------------------------------------------------------------------
\* _surface_code: one round.

\* The entangling gates of the Z check curr_qubit in row r.
SurfZGates(curr_qubit, r, sc) ==
    <<Ins("CNOT", <<curr_qubit - 1, curr_qubit>>, <<>>),
      Ins("CNOT", <<curr_qubit + 1, curr_qubit>>, <<>>)>>
    \o (IF r = 0
        THEN <<Ins("CNOT", <<curr_qubit + sc[2], curr_qubit>>, <<>>)>>
        ELSE IF r = sc[1] - 1
        THEN <<Ins("CNOT", <<curr_qubit - sc[2], curr_qubit>>, <<>>)>>
        ELSE <<Ins("CNOT", <<curr_qubit - sc[2], curr_qubit>>, <<>>),
               Ins("CNOT", <<curr_qubit + sc[2], curr_qubit>>, <<>>)>>)

\* The gate noise of the Z check curr_qubit in row r.
SurfZNoise(curr_qubit, r, sc, nc) ==
    IF nc.none
    THEN <<>>
    ELSE <<Ins("PAULI_CHANNEL_2", <<curr_qubit - 1, curr_qubit>>, nc.v),
           Ins("PAULI_CHANNEL_2", <<curr_qubit + 1, curr_qubit>>, nc.v)>>
         \o (IF r = 0
             THEN <<Ins("PAULI_CHANNEL_2", <<curr_qubit + sc[2], curr_qubit>>, nc.v)>>
             ELSE IF r = sc[1] - 1
             THEN <<Ins("PAULI_CHANNEL_2", <<curr_qubit - sc[2], curr_qubit>>, nc.v)>>
             ELSE <<Ins("PAULI_CHANNEL_2", <<curr_qubit - sc[2], curr_qubit>>, nc.v),
                    Ins("PAULI_CHANNEL_2", <<curr_qubit + sc[2], curr_qubit>>, nc.v)>>)

\* The entangling gates of the X check curr_qubit in column c, between two H.
SurfXGates(curr_qubit, c, sc) ==
    <<Ins("H", <<curr_qubit>>, <<>>),
      Ins("CNOT", <<curr_qubit - sc[2], curr_qubit>>, <<>>),
      Ins("CNOT", <<curr_qubit + sc[2], curr_qubit>>, <<>>)>>
    \o (IF c = 0
        THEN <<Ins("CNOT", <<curr_qubit + 1, curr_qubit>>, <<>>)>>
        ELSE IF c = sc[2] - 1
        THEN <<Ins("CNOT", <<curr_qubit - 1, curr_qubit>>, <<>>)>>
        ELSE <<Ins("CNOT", <<curr_qubit - 1, curr_qubit>>, <<>>),
               Ins("CNOT", <<curr_qubit + 1, curr_qubit>>, <<>>)>>)
    \o <<Ins("H", <<curr_qubit>>, <<>>)>>

\* The gate noise of the X check curr_qubit in column c.
SurfXNoise(curr_qubit, c, sc, nc) ==
    IF nc.none
    THEN <<>>
    ELSE <<Ins("PAULI_CHANNEL_2", <<curr_qubit - sc[2], curr_qubit>>, nc.v),
           Ins("PAULI_CHANNEL_2", <<curr_qubit + sc[2], curr_qubit>>, nc.v)>>
         \o (IF c = 0
             THEN <<Ins("PAULI_CHANNEL_2", <<curr_qubit + 1, curr_qubit>>, nc.v)>>
             ELSE IF c = sc[2] - 1
             THEN <<Ins("PAULI_CHANNEL_2", <<curr_qubit - 1, curr_qubit>>, nc.v)>>
             ELSE <<Ins("PAULI_CHANNEL_2", <<curr_qubit - 1, curr_qubit>>, nc.v),
                    Ins("PAULI_CHANNEL_2", <<curr_qubit + 1, curr_qubit>>, nc.v)>>)

\* The body of the row/col loop for the site (r, c).
SurfSiteInstrs(r, c, sc, nc) ==
    LET curr_qubit == r * sc[2] + c
    IN  IF r % 2 = 0 /\ c % 2 /= 0
        THEN SurfZGates(curr_qubit, r, sc) \o SurfZNoise(curr_qubit, r, sc, nc)
        ELSE IF r % 2 /= 0 /\ c % 2 = 0
        THEN SurfXGates(curr_qubit, c, sc) \o SurfXNoise(curr_qubit, c, sc, nc)
        ELSE <<>>

\* SurfRoundDetector looking back over the Z checks only, as in the
\* repetition code.
SurfRoundDetectorZOnly(kk, zq, xq) ==
    Detector(<<-1 - kk, -1 - kk - Len(zq)>>)

\* The per-round detector of index kk: this measurement against the one
\* len(x_check_qubits + z_check_qubits) entries earlier.
SurfRoundDetector(kk, zq, xq) ==
    Detector(<<-1 - kk, -1 - kk - Len(xq \o zq)>>)

\* SurfDetectInstrs measuring the active basis first in x_memory too: X
\* checks, their detectors, then the Z checks.
SurfDetectInstrsActiveFirst(sub, zq, xq) ==
    IF sub = "z_memory"
    THEN <<Ins("MR", zq, <<>>)>>
         \o [j \in 1..Len(zq) |-> SurfRoundDetector(j - 1, zq, xq)]
         \o <<Ins("MR", xq, <<>>)>>
    ELSE IF sub = "x_memory"
    THEN <<Ins("MR", xq, <<>>)>>
         \o [j \in 1..Len(xq) |-> SurfRoundDetector(j - 1, zq, xq)]
         \o <<Ins("MR", zq, <<>>)>>
    ELSE <<Ins("MR", zq, <<>>)>>

\* "Detect changes": the measurements and detectors that end a round.
SurfDetectInstrs(sub, zq, xq) ==
    <<Ins("MR", zq, <<>>)>>
    \o (IF sub = "z_memory"
        THEN [j \in 1..Len(zq) |-> SurfRoundDetector(j - 1, zq, xq)]
             \o <<Ins("MR", xq, <<>>)>>
        ELSE IF sub = "x_memory"
        THEN <<Ins("MR", xq, <<>>)>>
             \o [j \in 1..Len(xq) |-> SurfRoundDetector(j - 1, zq, xq)]
        ELSE <<>>)

\* The local `circuit`: one round.
SurfRoundInstrs(sc, sub, dq, zq, xq, nc, nd, nzc, nxc) ==
    Concat([s \in 1..(sc[1] * sc[2]) |->
              SurfSiteInstrs((s - 1) \div sc[2], (s - 1) % sc[2], sc, nc)])
    \o Channel("PAULI_CHANNEL_1", dq, nd)
    \o Channel("PAULI_CHANNEL_1", zq, nzc)
    \o Channel("PAULI_CHANNEL_1", xq, nxc)
    \o SurfDetectInstrs(sub, zq, xq)

---------------------------------------------------------------------------
\* _surface_code: after the rounds.

\* One iteration of the z_memory final loop: the updated row and skip and
\* the detector appended.
SurfFinalZStep(kk, rw, sk, sc, dq, xq) ==
    LET num_data_qubits_z == sc[2] \div 2 + 1
        num_data_qubits_x == sc[2] \div 2
        next_row == kk % num_data_qubits_x = 0 /\ kk /= 0
        rw2 == IF next_row THEN rw + 2 ELSE rw
        sk2 == IF next_row THEN sk + num_data_qubits_z ELSE sk
        lookback_records ==
            <<-1 - kk - Len(dq \o xq), -1 - kk - sk2, -2 - kk - sk2>>
            \o (IF rw2 = 0
                THEN <<-2 - kk - sk2 - num_data_qubits_x>>
                ELSE IF rw2 = sc[1] - 1
                THEN <<-1 - kk - sk2 + num_data_qubits_x>>
                ELSE <<-1 - kk - sk2 + num_data_qubits_x,
                       -2 - kk - sk2 - num_data_qubits_x>>)
    IN  [row |-> rw2, skip |-> sk2, det |-> Detector(lookback_records)]

\* One iteration of the x_memory final loop.
SurfFinalXStep(kk, rw, sk, sc, dq, xq) ==
    LET num_data_qubits_z == sc[2] \div 2 + 1
        num_data_qubits_x == sc[2] \div 2
        first == kk % num_data_qubits_z = 0
        last == kk % num_data_qubits_z = num_data_qubits_z - 1
        sk2 == IF first /\ kk /= 0 THEN sk + num_data_qubits_x ELSE sk
        lookback_records ==
            (IF first
             THEN <<-2 - kk - sk2 - num_data_qubits_x>>
             ELSE IF last
             THEN <<-1 - kk - sk2 - num_data_qubits_x>>
             ELSE <<-2 - kk - sk2 - num_data_qubits_x,
                    -1 - kk - sk2 - num_data_qubits_x>>)
            \o <<-1 - kk - Len(dq \o xq), -1 - kk - sk2, -2 - kk - sk2>>
    IN  [row |-> rw, skip |-> sk2, det |-> Detector(lookback_records)]

\* SurfObservableInstr stepping over the even rows only, as if the odd rows
\* held no data qubit.
SurfObservableInstrEvenRows(sub, sc) ==
    LET num_data_qubits_z == sc[2] \div 2 + 1
        indices ==
            IF sub = "z_memory"
            THEN [j \in 1..(sc[1] \div 2 + 1) |->
                    -(j - 1) * num_data_qubits_z - num_data_qubits_z]
            ELSE IF sub = "x_memory"
            THEN [j \in 1..num_data_qubits_z |-> -1 - (j - 1)]
            ELSE <<>>
    IN  Ins("OBSERVABLE_INCLUDE", indices, <<0>>)

\* observable_lookback_indices.
SurfObservableInstr(sub, sc) ==
    LET num_data_qubits_z == sc[2] \div 2 + 1
        num_data_qubits_x == sc[2] \div 2
        indices ==
            IF sub = "z_memory"
            THEN [j \in 1..(sc[1] \div 2 + 1) |->
                    -(j - 1) * (num_data_qubits_z + num_data_qubits_x)
                    - num_data_qubits_z]
            ELSE IF sub = "x_memory"
            THEN [j \in 1..num_data_qubits_z |-> -1 - (j - 1)]
            ELSE <<>>
    IN  Ins("OBSERVABLE_INCLUDE", indices, <<0>>)

---------------------------------------------------------------------------
\* Role assignment (StabilizerModel.__init__).

Arange(n) ==
    [j \in 1..n |-> j - 1]

SurfIsData(q, sc) ==
    LET r == q \div sc[2]
        c == q % sc[2]
    IN  (r % 2 = 0 /\ c % 2 = 0) \/ (r % 2 /= 0 /\ c % 2 /= 0)

\* SurfIsZCheck with the row test inverted: the sites of the X checks.
SurfIsZCheckOddRow(q, sc) ==
    LET r == q \div sc[2]
        c == q % sc[2]
    IN  r % 2 /= 0 /\ c % 2 = 0

SurfIsZCheck(q, sc) ==
    LET r == q \div sc[2]
        c == q % sc[2]
    IN  r % 2 = 0 /\ c % 2 /= 0

SurfIsXCheck(q, sc) ==
    LET r == q \div sc[2]
        c == q % sc[2]
    IN  r % 2 /= 0 /\ c % 2 = 0

\* The qubits the row/col loop appends to each role list, in loop order.
SurfDataQubits(sc) ==
    SelectSeq(Arange(sc[1] * sc[2]), LAMBDA q : SurfIsData(q, sc))

SurfZCheckQubits(sc) ==
    SelectSeq(Arange(sc[1] * sc[2]), LAMBDA q : SurfIsZCheck(q, sc))

SurfXCheckQubits(sc) ==
    SelectSeq(Arange(sc[1] * sc[2]), LAMBDA q : SurfIsXCheck(q, sc))

SurfCoordInstrs(sc) ==
    [s \in 1..(sc[1] * sc[2]) |->
        Ins("QUBIT_COORDS", <<s - 1>>, <<(s - 1) \div sc[2], (s - 1) % sc[2]>>)]

---------------------------------------------------------------------------
\* The tokens of a classical list (classical_pcm) and element access.

StrTok(st) ==
    [str |-> TRUE, s |-> st, n |-> 0]

IntTok(v) ==
    [str |-> FALSE, s |-> "", n |-> v]

Tokens ==
    {StrTok("B"), StrTok("C")} \cup {IntTok(v) : v \in (-MaxIndex - 1)..MaxIndex}

\* The non-empty lists of at most MaxClistLen tokens.
Clists ==
    UNION {[1..n -> Tokens] : n \in 1..MaxClistLen}

\* clist.count("B")
CountOf(cl, st) ==
    Cardinality({j \in 1..Len(cl) : cl[j] = StrTok(st)})

\* one_hot_vec[idx] = 1 on an array of length n: an index in -n..n-1
\* addresses an element, a negative one counting from the end; any other
\* index raises IndexError.
IndexInBounds(idx, n) ==
    idx >= -n /\ idx < n

SetItem(vec, idx) ==
    [vec EXCEPT ![(IF idx < 0 THEN idx + Len(vec) ELSE idx) + 1] = 1]

IndexError ==
    [type |-> "IndexError", expected |-> 0, given |-> 0]

---------------------------------------------------------------------------
\* Matrix operations (hypergraph_pcm).  A matrix is the sequence of its rows.

Rows(M) ==
    Len(M)

Cols(M) ==
    Len(M[1])

\* The non-empty binary matrices of at most MaxCells entries.
Matrices ==
    UNION {[1..r -> [1..n -> {0, 1}]] :
            <<r, n>> \in {s \in (1..MaxCells) \X (1..MaxCells) : s[1] * s[2] <= MaxCells}}

\* np.eye(n)
Eye(n) ==
    [a \in 1..n |-> [b \in 1..n |-> IF a = b THEN 1 ELSE 0]]

\* M.T
Transpose(M) ==
    [b \in 1..Cols(M) |-> [a \in 1..Rows(M) |-> M[a][b]]]

\* np.kron(A, B): block (a, b) of the result is A[a][b] * B.
Kron(A, B) ==
    [x \in 1..(Rows(A) * Rows(B)) |->
        [y \in 1..(Cols(A) * Cols(B)) |->
            A[(x - 1) \div Rows(B) + 1][(y - 1) \div Cols(B) + 1]
            * B[((x - 1) % Rows(B)) + 1][((y - 1) % Cols(B)) + 1]]]

\* np.append(A, B, axis=1)
AppendCols(A, B) ==
    [x \in 1..Rows(A) |-> A[x] \o B[x]]

\* HypergraphHX with the operands of the second product exchanged.
HypergraphHXSwapped(A, B) ==
    AppendCols(Kron(A, Eye(Cols(B))), Kron(Transpose(B), Eye(Rows(A))))

HypergraphHX(A, B) ==
    AppendCols(Kron(A, Eye(Cols(B))), Kron(Eye(Rows(A)), Transpose(B)))

HypergraphHZ(A, B) ==
    AppendCols(Kron(Eye(Cols(A)), B), Kron(Transpose(A), Eye(Rows(B))))

---------------------------------------------------------------------------
\* classical_pcm as a function of its argument, and the role labels of the
\* hypergraph-product code (StabilizerModel.__init__).

KeyError ==
    [type |-> "KeyError", expected |-> 0, given |-> 0]

\* The positions of the integers that directly follow position c.
PcmRun(cl, c) ==
    {p \in (c + 1)..Len(cl) : \A q \in (c + 1)..p : ~cl[q].str}

\* classical_pcm(cl): the array returned, or the IndexError raised.
ClassicalPcm(cl) ==
    LET nb == CountOf(cl, "B")
        cs == SelectSeq([p \in 1..Len(cl) |-> p], LAMBDA p : cl[p] = StrTok("C"))
        Wrapped(idx) == IF idx < 0 THEN idx + nb ELSE idx
        OneHot(c) == [b \in 1..nb |->
                        IF \E p \in PcmRun(cl, c) : Wrapped(cl[p].n) = b - 1
                        THEN 1 ELSE 0]
    IN  IF \E j \in 1..Len(cs) :
              \E p \in PcmRun(cl, cs[j]) : ~IndexInBounds(cl[p].n, nb)
        THEN [err |-> IndexError, array |-> NoArray]
        ELSE [err |-> NoError,
              array |-> NpArray([j \in 1..Len(cs) |-> OneHot(cs[j])])]

\* sum(H.shape)
ShapeSum(array) ==
    IF Len(array.shape) = 1 THEN array.shape[1]
    ELSE array.shape[1] + array.shape[2]

\* The entries s of a list with `not np.issubdtype(type(s), np.number)`.
Markers(cl) ==
    SelectSeq(cl, LAMBDA t : t.str)

ZCheckOrder(cl2) ==
    [j \in 1..Len(Markers(cl2)) |->
        IF Markers(cl2)[j] = StrTok("B") THEN "Q" ELSE "Z"]

XCheckOrder(cl2) ==
    [j \in 1..Len(Markers(cl2)) |->
        IF Markers(cl2)[j] = StrTok("B") THEN "X" ELSE "Q"]

\* check_order: one row of labels per marker of clist1, flattened.
CheckOrder(cl1, cl2) ==
    Concat([j \in 1..Len(Markers(cl1)) |->
              IF Markers(cl1)[j] = StrTok("B")
              THEN ZCheckOrder(cl2) ELSE XCheckOrder(cl2)])

\* [q for q, s in zip(qs, order) if s == label]
ZipSelect(qs, order, label) ==
    LET n == IF Len(qs) < Len(order) THEN Len(qs) ELSE Len(order)
        at == SelectSeq([j \in 1..n |-> j], LAMBDA j : order[j] = label)
    IN  [j \in 1..Len(at) |-> qs[at[j]]]

---------------------------------------------------------------------------
\* The calls explored: StabilizerModel(code, rounds=..., noise_*=..., **kwargs).

NoiseForms ==
    {NoneArg, ScalarArg(0), ScalarArg(30),
     VectorArg(Arange(NoiseQubitParams)), VectorArg(Arange(NoiseCircuitParams))}

NoiseArgs ==
    [circuit : NoiseForms, data : NoiseForms,
     z_check : NoiseForms, x_check : NoiseForms]

\* The defaults (0.0 everywhere), and explicit vectors of the right lengths.
DefaultNoise ==
    [circuit |-> ScalarArg(0), data |-> ScalarArg(0),
     z_check |-> ScalarArg(0), x_check |-> ScalarArg(0)]

VectorNoise ==
    [circuit |-> VectorArg(Arange(NoiseCircuitParams)),
     data |-> VectorArg(Arange(NoiseQubitParams)),
     z_check |-> VectorArg(Arange(NoiseQubitParams)),
     x_check |-> VectorArg(Arange(NoiseQubitParams))]

RepetitionCalls ==
    [code : {"repetition_code"}, subcode : {"None"}, distance : 1..MaxDistance,
     scale : {<<0, 0>>}, rounds : 0..MaxRounds]

SurfaceCalls ==
    [code : {"surface_code"}, subcode : {"z_memory", "x_memory"}, distance : {0},
     scale : (1..(2 * MaxHalf + 1)) \X (1..(2 * MaxHalf + 1)), rounds : 0..MaxRounds]

\* Families the match statement does not know, with and without a ":" part.
UnknownCalls ==
    [code : {"color_code", "", "Surface_Code"}, subcode : {"None", "z_memory"},
     distance : {0, 1}, scale : {<<0, 0>>, <<3, 3>>}, rounds : {1}]

HgpTokens ==
    {StrTok("B"), StrTok("C"), IntTok(0)}

\* The classical lists of the hypergraph-product calls: at most MaxHgpLen
\* tokens.
HgpClists ==
    UNION {[1..n -> HgpTokens] : n \in 1..MaxHgpLen}

HgpCalls ==
    [clist1 : HgpClists, clist2 : HgpClists, pos : {"given", "missing"}]

\* Small codes, on which every combination of noise arguments is tried.
NoiseSweepCalls ==
    {c \in RepetitionCalls \cup SurfaceCalls :
        /\ c.rounds = 1
        /\ c.distance <= 2
        /\ c.scale \in {<<0, 0>>, <<3, 3>>}}

Calls ==
    ((RepetitionCalls \cup SurfaceCalls \cup UnknownCalls)
        \X {DefaultNoise, VectorNoise})
    \cup (NoiseSweepCalls \X NoiseArgs)

edgesIdle ==
    /\ adjacency_matrix = <<>>
    /\ positions = <<>>
    /\ edges = <<>>
    /\ intersecting_edges = {}

\* The `circuit` argument: None, or a circuit that already holds a gate.
PassedCircuits ==
    {<<>>, <<Ins("H", <<0>>, <<>>)>>}

pcmIdle ==
    /\ clist = <<>>
    /\ num_bits = 0
    /\ i = 0
    /\ peak_i = 0
    /\ one_hot_vec = <<>>
    /\ H = <<>>
    /\ result = NoArray

hgpIdle ==
    /\ H1 = <<>>
    /\ H2 = <<>>
    /\ HX = <<>>
    /\ HZ = <<>>

Init ==
    /\ \/ \E call \in Calls :
            /\ code = call[1].code
            /\ subcode = call[1].subcode
            /\ distance = call[1].distance
            /\ scale = call[1].scale
            /\ rounds = call[1].rounds
            /\ noise_args = call[2]
            /\ clist1 = <<>>
            /\ clist2 = <<>>
            /\ pos = "missing"
       \/ \E call \in HgpCalls :
            /\ code = "hypergraph_product_code"
            /\ subcode = "None"
            /\ distance = 0
            /\ scale = <<0, 0>>
            /\ rounds = 1
            /\ noise_args = DefaultNoise
            /\ clist1 = call.clist1
            /\ clist2 = call.clist2
            /\ pos = call.pos
    /\ pc = "start"
    /\ circuit_arg \in PassedCircuits
    /\ noise_circuit = Unset
    /\ noise_data = Unset
    /\ noise_z_check = Unset
    /\ noise_x_check = Unset
    /\ qubits = <<>>
    /\ data_qubits = <<>>
    /\ z_check_qubits = <<>>
    /\ x_check_qubits = <<>>
    /\ circuit = circuit_arg
    /\ body = <<>>
    /\ tag = Const(-1, Len(circuit_arg))
    /\ k = 0
    /\ row = 0
    /\ skip = 0
    /\ err = NoError
    /\ pcmIdle
    /\ hgpIdle
    /\ edgesIdle

callVars ==
    <<circuit_arg, code, subcode, distance, scale, rounds, clist1, clist2, pos,
      noise_args>>

noiseVars ==
    <<noise_circuit, noise_data, noise_z_check, noise_x_check>>

roleVars ==
    <<qubits, data_qubits, z_check_qubits, x_check_qubits>>

loopVars ==
    <<k, row, skip>>

\* self.circuit receives `instrs`, emitted in round `r`.
Emit(instrs, r) ==
    /\ circuit' = circuit \o instrs
    /\ tag' = tag \o Const(r, Len(instrs))

\* __init__, the noise arguments: the first of the four blocks that raises
\* ends the call.
NormalizeNoise ==
    /\ pc = "start"
    /\ LET nc == NormalizeOne(noise_args.circuit, NoiseCircuitParams, noise_args.circuit)
           nd == NormalizeOne(noise_args.data, NoiseQubitParams, noise_args.data)
           nz == NormalizeOne(noise_args.z_check, NoiseQubitParams, noise_args.z_check)
           nx == NormalizeOne(noise_args.x_check, NoiseQubitParams, noise_args.z_check)
           failed == CHOOSE f \in 1..5 :
                        /\ f = 5 \/ <<nc, nd, nz, nx>>[f].err /= NoError
                        /\ \A g \in 1..(f - 1) : <<nc, nd, nz, nx>>[g].err = NoError
       IN  /\ noise_circuit' = IF failed > 1 THEN Stored(nc.val) ELSE noise_circuit
           /\ noise_data' = IF failed > 2 THEN Stored(nd.val) ELSE noise_data
           /\ noise_z_check' = IF failed > 3 THEN Stored(nz.val) ELSE noise_z_check
           /\ noise_x_check' = IF failed > 4 THEN Stored(nx.val) ELSE noise_x_check
           /\ err' = IF failed = 5 THEN NoError ELSE <<nc, nd, nz, nx>>[failed].err
           /\ pc' = IF failed = 5 THEN "dispatch" ELSE "error"
    /\ UNCHANGED <<callVars, roleVars, circuit, body, tag, loopVars, pcmVars, hgpVars, edgeVars>>

\* DispatchRepetition with the two slices exchanged: checks on the even
\* qubits, data on the odd ones.
DispatchRepetitionSwapped ==
    /\ pc = "dispatch"
    /\ code = "repetition_code"
    /\ qubits' = Arange(2 * distance + 1)
    /\ data_qubits' = Stride2(2 * distance + 1, 1)
    /\ z_check_qubits' = Stride2(2 * distance + 1, 0)
    /\ pc' = "rep_anchor"
    /\ UNCHANGED <<callVars, noiseVars, x_check_qubits, circuit, body, tag,
                   loopVars, err, pcmVars, hgpVars, edgeVars>>

\* case "repetition_code".
DispatchRepetition ==
    /\ pc = "dispatch"
    /\ code = "repetition_code"
    /\ qubits' = Arange(2 * distance + 1)
    /\ data_qubits' = Stride2(2 * distance + 1, 0)
    /\ z_check_qubits' = Stride2(2 * distance + 1, 1)
    /\ pc' = "rep_anchor"
    /\ UNCHANGED <<callVars, noiseVars, x_check_qubits, circuit, body, tag,
                   loopVars, err, pcmVars, hgpVars, edgeVars>>

\* DispatchSurface with the scale assertion placed after the role loop.
DispatchSurfaceLateCheck ==
    /\ pc = "dispatch"
    /\ code = "surface_code"
    /\ qubits' = Arange(scale[1] * scale[2])
    /\ data_qubits' = SurfDataQubits(scale)
    /\ z_check_qubits' = SurfZCheckQubits(scale)
    /\ x_check_qubits' = SurfXCheckQubits(scale)
    /\ Emit(SurfCoordInstrs(scale), 0)
    /\ IF scale[1] % 2 /= 0 /\ scale[2] % 2 /= 0
       THEN /\ pc' = "surf_anchor"
            /\ err' = err
       ELSE /\ err' = AssertionError(0, 0)
            /\ pc' = "error"
    /\ UNCHANGED <<callVars, noiseVars, body, loopVars, pcmVars, hgpVars, edgeVars>>

\* case "surface_code": the scale assertion, then the role loop.
DispatchSurface ==
    /\ pc = "dispatch"
    /\ code = "surface_code"
    /\ IF scale[1] % 2 /= 0 /\ scale[2] % 2 /= 0
       THEN /\ qubits' = Arange(scale[1] * scale[2])
            /\ data_qubits' = SurfDataQubits(scale)
            /\ z_check_qubits' = SurfZCheckQubits(scale)
            /\ x_check_qubits' = SurfXCheckQubits(scale)
            /\ Emit(SurfCoordInstrs(scale), 0)
            /\ pc' = "surf_anchor"
            /\ err' = err
       ELSE /\ err' = AssertionError(0, 0)
            /\ pc' = "error"
            /\ UNCHANGED <<roleVars, circuit, tag>>
    /\ UNCHANGED <<callVars, noiseVars, body, loopVars, pcmVars, hgpVars, edgeVars>>

\* DispatchUnknown without the default case: the match statement falls
\* through and construction returns.
DispatchUnknownSilent ==
    /\ pc = "dispatch"
    /\ code \notin {"repetition_code", "surface_code", "hypergraph_product_code"}
    /\ pc' = "done"
    /\ UNCHANGED <<callVars, noiseVars, roleVars, circuit, body, tag, loopVars,
                   err, pcmVars, hgpVars, edgeVars>>

\* case _.
DispatchUnknown ==
    /\ pc = "dispatch"
    /\ code \notin {"repetition_code", "surface_code", "hypergraph_product_code"}
    /\ err' = ValueError
    /\ pc' = "error"
    /\ UNCHANGED <<callVars, noiseVars, roleVars, circuit, body, tag, loopVars,
                   pcmVars, hgpVars, edgeVars>>

---------------------------------------------------------------------------
\* _repetition_code, statement by statement.

RepAnchor ==
    /\ pc = "rep_anchor"
    /\ Emit(RepAnchorInstrs(z_check_qubits), 0)
    /\ pc' = "rep_round"
    /\ UNCHANGED <<callVars, noiseVars, roleVars, body, loopVars, err, pcmVars, hgpVars, edgeVars>>

RepRound ==
    /\ pc = "rep_round"
    /\ body' = RepRoundInstrs(z_check_qubits, data_qubits, distance,
                              noise_circuit, noise_data, noise_z_check)
    /\ pc' = "rep_repeat"
    /\ UNCHANGED <<callVars, noiseVars, roleVars, circuit, tag, loopVars, err,
                   pcmVars, hgpVars, edgeVars>>

\* self.circuit += circuit * self.rounds
RepeatBody ==
    /\ circuit' = circuit \o Repeat(body, rounds)
    /\ tag' = tag \o Concat([r \in 1..rounds |-> Const(r, Len(body))])

RepRepeat ==
    /\ pc = "rep_repeat"
    /\ RepeatBody
    /\ pc' = "rep_measure"
    /\ UNCHANGED <<callVars, noiseVars, roleVars, body, loopVars, err, pcmVars, hgpVars, edgeVars>>

RepMeasureData ==
    /\ pc = "rep_measure"
    /\ Emit(<<Ins("M", data_qubits, <<>>)>>, rounds + 1)
    /\ k' = 0
    /\ pc' = "rep_final"
    /\ UNCHANGED <<callVars, noiseVars, roleVars, body, row, skip, err, pcmVars, hgpVars, edgeVars>>

RepFinalLoop ==
    /\ pc = "rep_final"
    /\ k < Len(z_check_qubits)
    /\ Emit(<<RepFinalDetector(k, distance)>>, rounds + 1)
    /\ k' = k + 1
    /\ UNCHANGED <<pc, callVars, noiseVars, roleVars, body, row, skip, err,
                   pcmVars, hgpVars, edgeVars>>

RepObservable ==
    /\ pc = "rep_final"
    /\ k >= Len(z_check_qubits)
    /\ Emit(<<RepObservableInstr>>, rounds + 1)
    /\ pc' = "done"
    /\ UNCHANGED <<callVars, noiseVars, roleVars, body, loopVars, err, pcmVars, hgpVars, edgeVars>>

---------------------------------------------------------------------------
\* _surface_code, statement by statement.

SurfAnchor ==
    /\ pc = "surf_anchor"
    /\ Emit(<<Ins("R", qubits, <<>>),
              Ins("M", z_check_qubits \o x_check_qubits, <<>>)>>, 0)
    /\ pc' = "surf_round"
    /\ UNCHANGED <<callVars, noiseVars, roleVars, body, loopVars, err, pcmVars, hgpVars, edgeVars>>

SurfRound ==
    /\ pc = "surf_round"
    /\ body' = SurfRoundInstrs(scale, subcode, data_qubits, z_check_qubits,
                               x_check_qubits, noise_circuit, noise_data,
                               noise_z_check, noise_x_check)
    /\ pc' = "surf_repeat"
    /\ UNCHANGED <<callVars, noiseVars, roleVars, circuit, tag, loopVars, err,
                   pcmVars, hgpVars, edgeVars>>

SurfRepeat ==
    /\ pc = "surf_repeat"
    /\ RepeatBody
    /\ pc' = "surf_measure"
    /\ UNCHANGED <<callVars, noiseVars, roleVars, body, loopVars, err, pcmVars, hgpVars, edgeVars>>

SurfMeasureData ==
    /\ pc = "surf_measure"
    /\ Emit(<<Ins("M", data_qubits, <<>>)>>, rounds + 1)
    /\ k' = 0
    /\ row' = 0
    /\ skip' = 0
    /\ pc' = "surf_final"
    /\ UNCHANGED <<callVars, noiseVars, roleVars, body, err, pcmVars, hgpVars, edgeVars>>

SurfFinalLoopZ ==
    /\ pc = "surf_final"
    /\ subcode = "z_memory"
    /\ k < Len(z_check_qubits)
    /\ LET step == SurfFinalZStep(k, row, skip, scale, data_qubits, x_check_qubits)
       IN  /\ Emit(<<step.det>>, rounds + 1)
           /\ row' = step.row
           /\ skip' = step.skip
    /\ k' = k + 1
    /\ UNCHANGED <<pc, callVars, noiseVars, roleVars, body, err, pcmVars, hgpVars, edgeVars>>

SurfFinalLoopX ==
    /\ pc = "surf_final"
    /\ subcode = "x_memory"
    /\ k < Len(x_check_qubits)
    /\ LET step == SurfFinalXStep(k, row, skip, scale, data_qubits, x_check_qubits)
       IN  /\ Emit(<<step.det>>, rounds + 1)
           /\ row' = step.row
           /\ skip' = step.skip
    /\ k' = k + 1
    /\ UNCHANGED <<pc, callVars, noiseVars, roleVars, body, err, pcmVars, hgpVars, edgeVars>>

SurfObservable ==
    /\ pc = "surf_final"
    /\ \/ subcode = "z_memory" /\ k >= Len(z_check_qubits)
       \/ subcode = "x_memory" /\ k >= Len(x_check_qubits)
       \/ subcode \notin {"z_memory", "x_memory"}
    /\ Emit(<<SurfObservableInstr(subcode, scale)>>, rounds + 1)
    /\ pc' = "done"
    /\ UNCHANGED <<callVars, noiseVars, roleVars, body, loopVars, err, pcmVars, hgpVars, edgeVars>>

---------------------------------------------------------------------------
\* case "hypergraph_product_code" and _hypergraph_product_code.

\* The matrices, the qubit count and the role lists.
DispatchHgp ==
    /\ pc = "dispatch"
    /\ code = "hypergraph_product_code"
    /\ LET p1 == ClassicalPcm(clist1)
           p2 == ClassicalPcm(clist2)
           num_qubits == ShapeSum(p1.array) * ShapeSum(p2.array)
           check_order == CheckOrder(clist1, clist2)
       IN  IF p1.err /= NoError \/ p2.err /= NoError
           THEN /\ err' = IndexError
                /\ pc' = "error"
                /\ UNCHANGED <<roleVars, H1, H2>>
           ELSE /\ H1' = p1.array.rows
                /\ H2' = p2.array.rows
                /\ qubits' = Arange(num_qubits)
                /\ data_qubits' = ZipSelect(Arange(num_qubits), check_order, "Q")
                /\ z_check_qubits' = ZipSelect(Arange(num_qubits), check_order, "Z")
                /\ x_check_qubits' = ZipSelect(Arange(num_qubits), check_order, "X")
                /\ pc' = "hgp_product"
                /\ err' = err
    /\ UNCHANGED <<callVars, noiseVars, circuit, body, tag, loopVars, pcmVars,
                   HX, HZ, edgeVars>>

\* _hypergraph_product_code: the position map is looked up, the matrices are
\* built again and handed to hypergraph_pcm, which unpacks their shapes.
HgpProduct ==
    /\ pc = "hgp_product"
    /\ LET p1 == ClassicalPcm(clist1)
           p2 == ClassicalPcm(clist2)
       IN  IF pos = "missing"
           THEN /\ err' = KeyError
                /\ pc' = "error"
                /\ UNCHANGED <<HX, HZ>>
           ELSE IF Len(p1.array.shape) /= 2 \/ Len(p2.array.shape) /= 2
           THEN /\ err' = ValueError
                /\ pc' = "error"
                /\ UNCHANGED <<HX, HZ>>
           ELSE /\ HX' = HypergraphHX(p1.array.rows, p2.array.rows)
                /\ HZ' = HypergraphHZ(p1.array.rows, p2.array.rows)
                /\ pc' = "done"
                /\ err' = err
    /\ UNCHANGED <<callVars, noiseVars, roleVars, circuit, body, tag, loopVars,
                   pcmVars, H1, H2, edgeVars>>

Next ==
    \/ NormalizeNoise
    \/ DispatchHgp
    \/ HgpProduct
    \/ DispatchRepetition
    \/ DispatchSurface
    \/ DispatchUnknown
    \/ RepAnchor
    \/ RepRound
    \/ RepRepeat
    \/ RepMeasureData
    \/ RepFinalLoop
    \/ RepObservable
    \/ SurfAnchor
    \/ SurfRound
    \/ SurfRepeat
    \/ SurfMeasureData
    \/ SurfFinalLoopZ
    \/ SurfFinalLoopX
    \/ SurfObservable

Spec ==
    Init /\ [][Next]_vars

---------------------------------------------------------------------------
\* The measurement record of a circuit, and lookbacks resolved against it.

IsMeasurement(ins) ==
    ins.name \in {"M", "MR"}

\* One entry per measured qubit, in stream order: the qubit, the round of
\* the measuring instruction and that instruction's index.
Stream(circ, tg) ==
    Concat([n \in 1..Len(circ) |->
              IF IsMeasurement(circ[n])
              THEN [j \in 1..Len(circ[n].targets) |->
                      [qubit |-> circ[n].targets[j], round |-> tg[n], at |-> n]]
              ELSE <<>>])

\* The length of the stream when instruction n is emitted.
StreamLenAt(st, n) ==
    Cardinality({j \in 1..Len(st) : st[j].at < n})

\* The absolute position (0-based) that offset `off` of instruction n names.
Position(st, n, off) ==
    StreamLenAt(st, n) + off

NoEntry ==
    [qubit |-> -1, round |-> -1, at |-> 0]

\* The stream entry that offset `off` of instruction n names.
Resolve(st, n, off) ==
    LET target == Position(st, n, off)
    IN  IF target >= 0 /\ target < StreamLenAt(st, n)
        THEN st[target + 1] ELSE NoEntry

\* The indices of the DETECTOR instructions emitted in round r, in order.
DetectorsOf(circ, tg, r) ==
    SelectSeq([n \in 1..Len(circ) |-> n],
              LAMBDA n : circ[n].name = "DETECTOR" /\ tg[n] = r)

InSeq(x, s) ==
    \E j \in 1..Len(s) : s[j] = x

Distinct(s) ==
    \A a, b \in 1..Len(s) : a /= b => s[a] /= s[b]

---------------------------------------------------------------------------
\* Properties of the repetition-code circuit.

RepRoundsEmitted ==
    code = "repetition_code" /\ pc \in {"rep_measure", "rep_final", "done"}

\* C1: repetition code: in every round the k-th detector has exactly the two
\* targets -1-k and -1-k-d; resolved against the stream at the point of
\* emission they are this round's measurement of one Z-check qubit and the
\* measurement of the same qubit one round earlier (the anchor for round 1);
\* every round appends exactly d = len(z_check_qubits) stream entries.
C1_RepRoundDetectors ==
    RepRoundsEmitted =>
        LET st == Stream(circuit, tag)
            d == Len(z_check_qubits)
        IN  /\ d = distance
            /\ \A r \in 1..rounds :
                LET dets == DetectorsOf(circuit, tag, r)
                IN  /\ Cardinality({j \in 1..Len(st) : st[j].round = r}) = d
                    /\ Len(dets) = d
                    /\ \A kk \in 0..(d - 1) :
                        LET n == dets[kk + 1]
                            t == circuit[n].targets
                            now == Resolve(st, n, t[1])
                            before == Resolve(st, n, t[2])
                        IN  /\ t = <<-1 - kk, -1 - kk - d>>
                            /\ InSeq(now.qubit, z_check_qubits)
                            /\ now.round = r
                            /\ before.qubit = now.qubit
                            /\ before.round = r - 1

C1_Witness ==
    /\ code = "repetition_code"
    /\ pc = "done"
    /\ distance >= 2
    /\ rounds >= 2
    /\ Len(DetectorsOf(circuit, tag, 2)) = distance

\* C2: repetition code: the k-th final detector has exactly three targets,
\* which resolve to the final measurements of the data qubits q-1 and q+1
\* and the last-round measurement of the Z-check qubit q between them.
C2_RepFinalDetectors ==
    code = "repetition_code" =>
        LET st == Stream(circuit, tag)
            dets == DetectorsOf(circuit, tag, rounds + 1)
        IN  /\ pc = "done" => Len(dets) = distance
            /\ \A kk \in 0..(Len(dets) - 1) :
                LET n == dets[kk + 1]
                    t == circuit[n].targets
                    right == Resolve(st, n, t[1])
                    left == Resolve(st, n, t[2])
                    chk == Resolve(st, n, t[3])
                    q == chk.qubit
                IN  /\ Len(t) = 3
                    /\ InSeq(q, z_check_qubits)
                    /\ chk.round = rounds
                    /\ left.qubit = q - 1
                    /\ right.qubit = q + 1
                    /\ left.round = rounds + 1
                    /\ right.round = rounds + 1
                    /\ InSeq(q - 1, data_qubits)
                    /\ InSeq(q + 1, data_qubits)

C2_Witness ==
    /\ code = "repetition_code"
    /\ pc = "done"
    /\ distance >= 3
    /\ rounds >= 1
    /\ Len(DetectorsOf(circuit, tag, rounds + 1)) = distance

\* C3: repetition code: the built circuit holds exactly d*r + d detectors
\* and exactly one observable declaration, tagged 0, whose only target is
\* offset -1, the most recent data measurement.
C3_RepCounts ==
    (code = "repetition_code" /\ pc = "done") =>
        LET st == Stream(circuit, tag)
            dets == {n \in 1..Len(circuit) : circuit[n].name = "DETECTOR"}
            obs == {n \in 1..Len(circuit) : circuit[n].name = "OBSERVABLE_INCLUDE"}
        IN  /\ Cardinality(dets) = distance * rounds + distance
            /\ Cardinality(obs) = 1
            /\ \A n \in obs :
                /\ circuit[n].args = <<0>>
                /\ circuit[n].targets = <<-1>>
                /\ Position(st, n, -1) = Len(st) - 1
                /\ InSeq(Resolve(st, n, -1).qubit, data_qubits)
                /\ Resolve(st, n, -1).round = rounds + 1

C3_Witness ==
    /\ code = "repetition_code"
    /\ pc = "done"
    /\ distance = 3
    /\ rounds = 2
    /\ Cardinality({n \in 1..Len(circuit) : circuit[n].name = "DETECTOR"}) = 9

---------------------------------------------------------------------------
\* Properties of the surface-code circuit.

SurfRoundsEmitted ==
    code = "surface_code" /\ pc \in {"surf_measure", "surf_final", "done"}

ActiveChecks ==
    IF subcode = "z_memory" THEN z_check_qubits
    ELSE IF subcode = "x_memory" THEN x_check_qubits
    ELSE <<>>

\* C4: surface code, z_memory and x_memory: every per-round detector has
\* exactly two targets, which resolve to this round's measurement of one
\* active-basis check qubit and the measurement of the same qubit one round
\* back (round 1: in the anchor measurement); the lookback distance is the
\* per-round measurement count len(z_check_qubits) + len(x_check_qubits).
C4_SurfRoundDetectors ==
    SurfRoundsEmitted =>
        LET st == Stream(circuit, tag)
            per_round == Len(z_check_qubits) + Len(x_check_qubits)
        IN  \A r \in 1..rounds :
                LET dets == DetectorsOf(circuit, tag, r)
                IN  /\ Cardinality({j \in 1..Len(st) : st[j].round = r}) = per_round
                    /\ Len(dets) = Len(ActiveChecks)
                    /\ Distinct([j \in 1..Len(dets) |->
                                    Resolve(st, dets[j], circuit[dets[j]].targets[1]).qubit])
                    /\ \A j \in 1..Len(dets) :
                        LET n == dets[j]
                            t == circuit[n].targets
                            now == Resolve(st, n, t[1])
                            before == Resolve(st, n, t[2])
                        IN  /\ Len(t) = 2
                            /\ t[1] - t[2] = per_round
                            /\ InSeq(now.qubit, ActiveChecks)
                            /\ now.round = r
                            /\ before.qubit = now.qubit
                            /\ before.round = r - 1

C4_Witness ==
    /\ code = "surface_code"
    /\ pc = "done"
    /\ subcode = "x_memory"
    /\ scale = <<3, 5>>
    /\ rounds = 2
    /\ Len(DetectorsOf(circuit, tag, 2)) = Len(x_check_qubits)
    /\ Len(x_check_qubits) = 3


\* The data qubits next to qubit q in the lattice: one row up or down, one
\* column left or right, inside the R x C grid.
LatticeNeighbours(q, sc) ==
    LET r == q \div sc[2]
        c == q % sc[2]
    IN  {rr * sc[2] + cc : <<rr, cc>> \in
            {p \in {<<r - 1, c>>, <<r + 1, c>>, <<r, c - 1>>, <<r, c + 1>>} :
                p[1] \in 0..(sc[1] - 1) /\ p[2] \in 0..(sc[2] - 1)}}

\* What the targets of instruction n resolve to, as <<qubit, round>> pairs.
ResolvedSet(st, n) ==
    {<<Resolve(st, n, circuit[n].targets[j]).qubit,
       Resolve(st, n, circuit[n].targets[j]).round>> :
        j \in 1..Len(circuit[n].targets)}

\* Detector n is the boundary detector of check q: it names q's most recent
\* measurement and the final measurements of exactly q's neighbours, each
\* once.
IsFinalDetectorOf(st, n, q) ==
    /\ Distinct(circuit[n].targets)
    /\ ResolvedSet(st, n) =
        {<<q, rounds>>} \cup {<<dq, rounds + 1>> : dq \in LatticeNeighbours(q, scale)}

\* There is one final detector per check of `checks`, each the boundary
\* detector of its own check.
FinalDetectorsMatch(checks) ==
    LET st == Stream(circuit, tag)
        dets == DetectorsOf(circuit, tag, rounds + 1)
    IN  /\ Len(dets) = Len(checks)
        /\ \A j \in 1..Len(checks) :
            \E d \in 1..Len(dets) : IsFinalDetectorOf(st, dets[d], checks[j])
        /\ \A d \in 1..Len(dets) :
            \E j \in 1..Len(checks) : IsFinalDetectorOf(st, dets[d], checks[j])

\* C5: surface code z_memory, any odd x odd scale, rounds >= 1: after the
\* final data measurement there is one final detector per Z-check, naming
\* the most recent measurement of that Z-check and the final measurements of
\* exactly its lattice-adjacent data qubits, all targets distinct.
C5_SurfFinalDetectorsZ ==
    (code = "surface_code" /\ subcode = "z_memory" /\ rounds >= 1 /\ pc = "done")
        => FinalDetectorsMatch(z_check_qubits)

\* The same for lattices of at least three rows.
SurfFinalDetectorsZTall ==
    (code = "surface_code" /\ subcode = "z_memory" /\ pc = "done" /\ scale[1] >= 3)
        => FinalDetectorsMatch(z_check_qubits)

\* C6: surface code x_memory, any odd x odd scale, rounds >= 1: after the
\* final data measurement there is one final detector per X-check, naming
\* the most recent measurement of that X-check and the final measurements of
\* exactly its lattice-adjacent data qubits (no Z-check measurement), all
\* targets distinct.
C6_SurfFinalDetectorsX ==
    (code = "surface_code" /\ subcode = "x_memory" /\ rounds >= 1 /\ pc = "done")
        => FinalDetectorsMatch(x_check_qubits)


---------------------------------------------------------------------------
\* The whole construction as a function of its arguments, for comparing the
\* circuits of two calls.

RECURSIVE SurfFinalZInstrs(_, _, _, _, _, _, _)
SurfFinalZInstrs(kk, n, rw, sk, sc, dq, xq) ==
    IF kk >= n THEN <<>>
    ELSE LET step == SurfFinalZStep(kk, rw, sk, sc, dq, xq)
         IN  <<step.det>> \o SurfFinalZInstrs(kk + 1, n, step.row, step.skip, sc, dq, xq)

RECURSIVE SurfFinalXInstrs(_, _, _, _, _, _, _)
SurfFinalXInstrs(kk, n, rw, sk, sc, dq, xq) ==
    IF kk >= n THEN <<>>
    ELSE LET step == SurfFinalXStep(kk, rw, sk, sc, dq, xq)
         IN  <<step.det>> \o SurfFinalXInstrs(kk + 1, n, step.row, step.skip, sc, dq, xq)

BuildRepetition(dist, rnds, nc, nd, nzc) ==
    LET dq == Stride2(2 * dist + 1, 0)
        zq == Stride2(2 * dist + 1, 1)
    IN  RepAnchorInstrs(zq)
        \o Repeat(RepRoundInstrs(zq, dq, dist, nc, nd, nzc), rnds)
        \o <<Ins("M", dq, <<>>)>>
        \o [j \in 1..Len(zq) |-> RepFinalDetector(j - 1, dist)]
        \o <<RepObservableInstr>>

BuildSurface(sc, sub, rnds, nc, nd, nzc, nxc) ==
    LET dq == SurfDataQubits(sc)
        zq == SurfZCheckQubits(sc)
        xq == SurfXCheckQubits(sc)
    IN  SurfCoordInstrs(sc)
        \o <<Ins("R", Arange(sc[1] * sc[2]), <<>>), Ins("M", zq \o xq, <<>>)>>
        \o Repeat(SurfRoundInstrs(sc, sub, dq, zq, xq, nc, nd, nzc, nxc), rnds)
        \o <<Ins("M", dq, <<>>)>>
        \o (IF sub = "z_memory" THEN SurfFinalZInstrs(0, Len(zq), 0, 0, sc, dq, xq)
            ELSE IF sub = "x_memory" THEN SurfFinalXInstrs(0, Len(xq), 0, 0, sc, dq, xq)
            ELSE <<>>)
        \o <<SurfObservableInstr(sub, sc)>>

\* StabilizerModel(cd[:sub], rounds=rnds, distance=dist, scale=sc, noise...):
\* whether construction returns, and the circuit it leaves.
Build(cd, sub, dist, sc, rnds, nargs) ==
    LET nc == NormalizeOne(nargs.circuit, NoiseCircuitParams, nargs.circuit)
        nd == NormalizeOne(nargs.data, NoiseQubitParams, nargs.data)
        nz == NormalizeOne(nargs.z_check, NoiseQubitParams, nargs.z_check)
        nx == NormalizeOne(nargs.x_check, NoiseQubitParams, nargs.z_check)
    IN  IF \E r \in {nc, nd, nz, nx} : r.err /= NoError
        THEN [ok |-> FALSE, circuit |-> <<>>]
        ELSE IF cd = "repetition_code"
        THEN [ok |-> TRUE,
              circuit |-> BuildRepetition(dist, rnds, Stored(nc.val), Stored(nd.val),
                                          Stored(nz.val))]
        ELSE IF cd = "surface_code" /\ sc[1] % 2 /= 0 /\ sc[2] % 2 /= 0
        THEN [ok |-> TRUE,
              circuit |-> BuildSurface(sc, sub, rnds, Stored(nc.val), Stored(nd.val),
                                       Stored(nz.val), Stored(nx.val))]
        ELSE [ok |-> FALSE, circuit |-> <<>>]

\* The step-by-step construction ends with the circuit Build computes.
BuildAgrees ==
    LET b == Build(code, subcode, distance, scale, rounds, noise_args)
    IN  code /= "hypergraph_product_code" =>
        /\ pc = "done" => b.ok /\ circuit = circuit_arg \o b.circuit
        /\ pc = "error" => ~b.ok

NoiseKinds ==
    {"circuit", "data", "z_check", "x_check"}

\* Instruction ins is a noise channel of the given kind, in a circuit whose
\* role lists are dq, zq, xq.
IsNoiseOf(ins, kind, dq, zq, xq) ==
    \/ kind = "circuit" /\ ins.name = "PAULI_CHANNEL_2"
    \/ kind = "data" /\ ins.name = "PAULI_CHANNEL_1" /\ ins.targets = dq
    \/ kind = "z_check" /\ ins.name = "PAULI_CHANNEL_1" /\ ins.targets = zq
    \/ kind = "x_check" /\ ins.name = "PAULI_CHANNEL_1" /\ ins.targets = xq

\* C7: for each noise kind, construction with that noise None succeeds,
\* emits no noise channel of that kind, and leaves exactly the circuit built
\* with that noise set to 0 with its noise channels of that kind removed.
C7_NoneNoiseOmitted ==
    \A kind \in NoiseKinds :
        LET zero == Build(code, subcode, distance, scale, rounds,
                          [noise_args EXCEPT ![kind] = ScalarArg(0)])
            dq == IF code = "repetition_code" THEN Stride2(2 * distance + 1, 0)
                  ELSE SurfDataQubits(scale)
            zq == IF code = "repetition_code" THEN Stride2(2 * distance + 1, 1)
                  ELSE SurfZCheckQubits(scale)
            xq == IF code = "repetition_code" THEN <<>>
                  ELSE SurfXCheckQubits(scale)
        IN  (/\ pc \in {"done", "error"}
             /\ noise_args[kind] = NoneArg
             /\ zero.ok)
            => /\ pc = "done"
               /\ \A n \in 1..Len(circuit) : ~IsNoiseOf(circuit[n], kind, dq, zq, xq)
               /\ circuit = circuit_arg
                            \o SelectSeq(zero.circuit,
                                         LAMBDA ins : ~IsNoiseOf(ins, kind, dq, zq, xq))


---------------------------------------------------------------------------
\* classical_pcm(clist).

builderIdle ==
    /\ circuit_arg = <<>>
    /\ code = "None"
    /\ subcode = "None"
    /\ distance = 0
    /\ scale = <<0, 0>>
    /\ rounds = 0
    /\ clist1 = <<>>
    /\ clist2 = <<>>
    /\ pos = "missing"
    /\ noise_args = DefaultNoise
    /\ noise_circuit = Unset
    /\ noise_data = Unset
    /\ noise_z_check = Unset
    /\ noise_x_check = Unset
    /\ qubits = <<>>
    /\ data_qubits = <<>>
    /\ z_check_qubits = <<>>
    /\ x_check_qubits = <<>>
    /\ circuit = <<>>
    /\ body = <<>>
    /\ tag = <<>>
    /\ k = 0
    /\ row = 0
    /\ skip = 0

InitPcm ==
    /\ clist \in Clists
    /\ pc = "pcm_start"
    /\ num_bits = 0
    /\ i = 0
    /\ peak_i = 0
    /\ one_hot_vec = <<>>
    /\ H = <<>>
    /\ result = NoArray
    /\ err = NoError
    /\ builderIdle
    /\ hgpIdle
    /\ edgesIdle

pcmFrame ==
    /\ UNCHANGED <<clist, builderVars_noPcErr, hgpVars, edgeVars>>

\* num_bits = clist.count("B"); H = []
PcmStart ==
    /\ pc = "pcm_start"
    /\ num_bits' = CountOf(clist, "B")
    /\ H' = <<>>
    /\ i' = 0
    /\ pc' = "pcm_for"
    /\ UNCHANGED <<peak_i, one_hot_vec, result, err>>
    /\ pcmFrame

\* One pass of `for i in range(len(clist))` up to the inner loop: a "C"
\* opens a row of zeros, anything else is passed over.
PcmFor ==
    /\ pc = "pcm_for"
    /\ i < Len(clist)
    /\ IF clist[i + 1] = StrTok("C")
       THEN /\ peak_i' = i + 1
            /\ one_hot_vec' = Const(0, num_bits)
            /\ pc' = "pcm_while"
            /\ i' = i
       ELSE /\ i' = i + 1
            /\ UNCHANGED <<peak_i, one_hot_vec, pc>>
    /\ UNCHANGED <<num_bits, H, result, err>>
    /\ pcmFrame

\* One pass of the while loop: the token at peak_i is not a string, and is
\* used as an index into one_hot_vec.
PcmWhile ==
    /\ pc = "pcm_while"
    /\ peak_i < Len(clist)
    /\ ~clist[peak_i + 1].str
    /\ IF IndexInBounds(clist[peak_i + 1].n, num_bits)
       THEN /\ one_hot_vec' = SetItem(one_hot_vec, clist[peak_i + 1].n)
            /\ peak_i' = peak_i + 1
            /\ UNCHANGED <<pc, err>>
       ELSE /\ err' = IndexError
            /\ pc' = "error"
            /\ UNCHANGED <<one_hot_vec, peak_i>>
    /\ UNCHANGED <<num_bits, i, H, result>>
    /\ pcmFrame

\* The while loop ends: H.append(one_hot_vec), and the for loop goes on.
PcmAppend ==
    /\ pc = "pcm_while"
    /\ ~(peak_i < Len(clist) /\ ~clist[peak_i + 1].str)
    /\ H' = Append(H, one_hot_vec)
    /\ i' = i + 1
    /\ pc' = "pcm_for"
    /\ UNCHANGED <<num_bits, peak_i, one_hot_vec, result, err>>
    /\ pcmFrame

\* return np.array(H, dtype=int)
PcmReturn ==
    /\ pc = "pcm_for"
    /\ i >= Len(clist)
    /\ result' = NpArray(H)
    /\ pc' = "pcm_done"
    /\ UNCHANGED <<num_bits, i, peak_i, one_hot_vec, H, err>>
    /\ pcmFrame

NextPcm ==
    \/ PcmStart
    \/ PcmFor
    \/ PcmWhile
    \/ PcmAppend
    \/ PcmReturn

SpecPcm ==
    InitPcm /\ [][NextPcm]_vars

---------------------------------------------------------------------------
\* Properties of classical_pcm.

\* Token p (1-based) is a connection index: an integer in the run of
\* integers that immediately follows a "C" marker.
IsConnIndex(cl, p) ==
    /\ ~cl[p].str
    /\ \E c \in 1..(p - 1) :
        /\ cl[c] = StrTok("C")
        /\ \A j \in (c + 1)..p : ~cl[j].str

\* Some connection index lies outside [0, num_bits).
HasBadIndex(cl) ==
    \E p \in 1..Len(cl) :
        /\ IsConnIndex(cl, p)
        /\ (cl[p].n < 0 \/ cl[p].n >= CountOf(cl, "B"))

\* C9: classical_pcm fails, returning no matrix, whenever a connection
\* index lies outside [0, num_bits): for indices >= num_bits and for every
\* negative index alike.
C9_OutOfRangeFails ==
    HasBadIndex(clist) => (pc /= "pcm_done" /\ result = NoArray)

\* What does hold: an index >= num_bits or < -num_bits ends the call with an
\* IndexError.
PcmFarIndexFails ==
    (\E p \in 1..Len(clist) :
        /\ IsConnIndex(clist, p)
        /\ ~IndexInBounds(clist[p].n, CountOf(clist, "B")))
    => (pc /= "pcm_done" /\ result = NoArray)

\* The positions (1-based) of the "C" markers, in list order.
CheckMarkers(cl) ==
    SelectSeq([p \in 1..Len(cl) |-> p], LAMBDA p : cl[p] = StrTok("C"))

\* Column j (0-based) occurs in the run of integers that follows the
\* marker at position c.
InRun(cl, c, j) ==
    \E p \in (c + 1)..Len(cl) :
        /\ \A q \in (c + 1)..p : ~cl[q].str
        /\ cl[p].n = j

\* The rows of the returned array are the rows the markers describe: 0/1
\* entries, one per "B", a 1 exactly at the columns of the marker's run.
RowsMatch(cl, rows) ==
    LET cs == CheckMarkers(cl)
        nb == CountOf(cl, "B")
    IN  /\ Len(rows) = Len(cs)
        /\ \A r \in 1..Len(rows) :
            /\ Len(rows[r]) = nb
            /\ \A j \in 0..(nb - 1) :
                /\ rows[r][j + 1] \in {0, 1}
                /\ rows[r][j + 1] = 1 <=> InRun(cl, cs[r], j)

\* C10: for every valid list classical_pcm returns a matrix with one row
\* per "C" marker, in list order, and one column per "B" marker, entries in
\* {0,1}, row i having a 1 in column j exactly when j occurs in the run of
\* integers that follows the i-th "C".
C10_PcmMatrix ==
    ~HasBadIndex(clist) =>
        /\ pc /= "error"
        /\ pc = "pcm_done" =>
            /\ result.shape = <<Len(CheckMarkers(clist)), CountOf(clist, "B")>>
            /\ RowsMatch(clist, result.rows)

\* What does hold: the rows are right for every valid list, and the array
\* is two-dimensional with one column per "B" once there is a "C".
PcmMatrixWithChecks ==
    ~HasBadIndex(clist) =>
        /\ pc /= "error"
        /\ pc = "pcm_done" =>
            /\ RowsMatch(clist, result.rows)
            /\ CheckMarkers(clist) /= <<>> =>
                result.shape = <<Len(CheckMarkers(clist)), CountOf(clist, "B")>>

---------------------------------------------------------------------------
\* hypergraph_pcm(H1, H2).  A matrix is the sequence of its rows.

InitHgp ==
    /\ H1 \in Matrices
    /\ H2 \in Matrices
    /\ HX = <<>>
    /\ HZ = <<>>
    /\ pc = "hgp_start"
    /\ err = NoError
    /\ builderIdle
    /\ pcmIdle
    /\ edgesIdle

HypergraphPcm ==
    /\ pc = "hgp_start"
    /\ HX' = HypergraphHX(H1, H2)
    /\ HZ' = HypergraphHZ(H1, H2)
    /\ pc' = "hgp_done"
    /\ UNCHANGED <<H1, H2, err, builderVars_noPcErr, pcmVars, edgeVars>>

NextHgp ==
    HypergraphPcm

SpecHgp ==
    InitHgp /\ [][NextHgp]_vars

\* Kronecker's delta.
Delta(a, b) ==
    IF a = b THEN 1 ELSE 0

\* Entry (x, y), 1-based, of M, read as a grid of blocks of `br` rows and
\* `bc` columns: <<block row, block column, row in block, column in block>>.
BlockIndex(x, y, br, bc) ==
    <<(x - 1) \div br + 1, (y - 1) \div bc + 1,
      ((x - 1) % br) + 1, ((y - 1) % bc) + 1>>

\* The dot product of two rows, modulo 2.
Dot2(u, v) ==
    LET RECURSIVE Sum(_)
        Sum(n) == IF n = 0 THEN 0 ELSE u[n] * v[n] + Sum(n - 1)
    IN  Sum(Len(u)) % 2

\* C8: hypergraph_pcm returns HX = [H1 (x) I_n2 | I_r1 (x) H2^T], of shape
\* (r1*n2) x (n1*n2 + r1*r2), and HZ = [I_n1 (x) H2 | H1^T (x) I_r2], of
\* shape (n1*r2) x (n1*n2 + r1*r2), and every entry of HX * HZ^T is 0
\* modulo 2.
C8_HypergraphPcm ==
    pc = "hgp_done" =>
        LET r1 == Rows(H1)
            n1 == Cols(H1)
            r2 == Rows(H2)
            n2 == Cols(H2)
        IN  /\ Rows(HX) = r1 * n2
            /\ Rows(HZ) = n1 * r2
            /\ \A x \in 1..(r1 * n2) :
                /\ Len(HX[x]) = n1 * n2 + r1 * r2
                /\ \A y \in 1..(n1 * n2) :
                    LET b == BlockIndex(x, y, n2, n2)
                    IN  HX[x][y] = H1[b[1]][b[2]] * Delta(b[3], b[4])
                /\ \A y \in 1..(r1 * r2) :
                    LET b == BlockIndex(x, y, n2, r2)
                    IN  HX[x][n1 * n2 + y] = Delta(b[1], b[2]) * H2[b[4]][b[3]]
            /\ \A x \in 1..(n1 * r2) :
                /\ Len(HZ[x]) = n1 * n2 + r1 * r2
                /\ \A y \in 1..(n1 * n2) :
                    LET b == BlockIndex(x, y, r2, n2)
                    IN  HZ[x][y] = Delta(b[1], b[2]) * H2[b[3]][b[4]]
                /\ \A y \in 1..(r1 * r2) :
                    LET b == BlockIndex(x, y, r2, r2)
                    IN  HZ[x][n1 * n2 + y] = H1[b[2]][b[1]] * Delta(b[3], b[4])
            /\ \A x \in 1..Rows(HX) : \A z \in 1..Rows(HZ) : Dot2(HX[x], HZ[z]) = 0

C8_Witness ==
    /\ pc = "hgp_done"
    /\ H1 = <<<<1, 1>>, <<0, 1>>>>
    /\ H2 = <<<<1, 0, 1>>>>
    /\ Rows(HX) = 6
    /\ Cols(HX) = 8
    /\ Rows(HZ) = 2
    /\ Cols(HZ) = 8
    /\ \E x \in 1..6 : \E z \in 1..2 : \E y \in 1..8 : HX[x][y] * HZ[z][y] = 1

---------------------------------------------------------------------------
\* Rejected calls.

EvenScale ==
    scale[1] % 2 = 0 \/ scale[2] % 2 = 0

\* C11: surface code with R or C even: construction never gets past the
\* dispatch, it ends in an error, and self.circuit, which is the circuit
\* passed by the caller when there is one, holds exactly what it held before
\* the call: no QUBIT_COORDS, R or M was appended.
C11_EvenScaleRejected ==
    (code = "surface_code" /\ EvenScale) =>
        /\ pc \in {"start", "dispatch", "error"}
        /\ circuit = circuit_arg
        /\ pc = "error" => err.type \in {"AssertionError", "TypeError"}
        /\ qubits = <<>>

C11_Witness ==
    /\ code = "surface_code"
    /\ scale = <<3, 2>>
    /\ pc = "error"
    /\ err = AssertionError(0, 0)
    /\ circuit_arg /= <<>>
    /\ circuit = circuit_arg

---------------------------------------------------------------------------
\* intersecting_edges(adjacency_matrix, positions).  Nodes are 0..n-1; the
\* matrix and the positions are sequences indexed by node + 1.

\* The (x, y) positions available to a node.
Grid ==
    (0..MaxCoord) \X (0..MaxCoord)

Layouts(n) ==
    [1..n -> Grid]

NodePairs(n) ==
    {e \in (0..(n - 1)) \X (0..(n - 1)) : e[1] < e[2]}

\* The symmetric 0/1 matrix of the graph on n nodes with edge set E.
AdjacencyOf(n, E) ==
    [a \in 1..n |-> [b \in 1..n |->
        IF <<a - 1, b - 1>> \in E \/ <<b - 1, a - 1>> \in E THEN 1 ELSE 0]]

CycleEdges ==
    {<<0, 1>>, <<1, 2>>, <<2, 3>>, <<0, 3>>}

Diagonals ==
    {<<0, 2>>, <<1, 3>>}

\* Every graph on the four nodes of the quadrilateral.
QuadGraphs ==
    {AdjacencyOf(4, E) : E \in SUBSET NodePairs(4)}

StarEdges(n, c) ==
    {e \in NodePairs(n) : c \in {e[1], e[2]}}

\* The stars on 2..MaxNodes nodes, any node the centre.
StarGraphs ==
    UNION {{AdjacencyOf(n, StarEdges(n, c)) : c \in 0..(n - 1)} : n \in 2..MaxNodes}

\* The first loop: the pairs (i, j), i < j, with adjacency_matrix[i, j] == 1,
\* in loop order.
EdgeList(A) ==
    LET n == Len(A)
    IN  SelectSeq([p \in 1..(n * n) |-> <<(p - 1) \div n, (p - 1) % n>>],
                  LAMBDA e : e[2] >= e[1] + 1 /\ A[e[1] + 1][e[2] + 1] = 1)

Ccw(A, B, C) ==
    (C[2] - A[2]) * (B[1] - A[1]) > (B[2] - A[2]) * (C[1] - A[1])

DoLinesIntersect(line1, line2) ==
    LET A == line1[1]
        B == line1[2]
        C == line2[1]
        D == line2[2]
    IN  (Ccw(A, C, D) /= Ccw(B, C, D)) /\ (Ccw(A, B, C) /= Ccw(A, B, D))

\* The second loop: every combination of two edges whose lines intersect.
Crossings(es, P) ==
    {{es[a], es[b]} : <<a, b>> \in
        {c \in (1..Len(es)) \X (1..Len(es)) :
            /\ c[1] < c[2]
            /\ DoLinesIntersect(<<P[es[c[1]][1] + 1], P[es[c[1]][2] + 1]>>,
                                <<P[es[c[2]][1] + 1], P[es[c[2]][2] + 1]>>)}}

\* len(set(edge1) & set(edge2)) != 0 for the two edges of a pair.
SharesNode(pair) ==
    \E edge1, edge2 \in pair :
        /\ edge1 /= edge2
        /\ {edge1[1], edge1[2]} \cap {edge2[1], edge2[2]} /= {}

\* RemoveShared removing nothing.
RemoveSharedNone(S) ==
    S

\* The third loop: intersecting_edges -= non_intersecting_pairs.
RemoveShared(S) ==
    S \ {pair \in S : SharesNode(pair)}

InitEdges ==
    /\ adjacency_matrix \in QuadGraphs \cup StarGraphs
    /\ positions \in Layouts(Len(adjacency_matrix))
    /\ edges = <<>>
    /\ intersecting_edges = {}
    /\ pc = "edges_start"
    /\ err = NoError
    /\ builderIdle
    /\ pcmIdle
    /\ hgpIdle

edgesFrame ==
    UNCHANGED <<adjacency_matrix, positions, err, builderVars_noPcErr, pcmVars, hgpVars>>

EdgesList ==
    /\ pc = "edges_start"
    /\ edges' = EdgeList(adjacency_matrix)
    /\ pc' = "edges_find"
    /\ UNCHANGED intersecting_edges
    /\ edgesFrame

EdgesFind ==
    /\ pc = "edges_find"
    /\ intersecting_edges' = Crossings(edges, positions)
    /\ pc' = "edges_remove"
    /\ UNCHANGED edges
    /\ edgesFrame

EdgesRemove ==
    /\ pc = "edges_remove"
    /\ intersecting_edges' = RemoveShared(intersecting_edges)
    /\ pc' = "edges_done"
    /\ UNCHANGED edges
    /\ edgesFrame

NextEdges ==
    \/ EdgesList
    \/ EdgesFind
    \/ EdgesRemove

SpecEdges ==
    InitEdges /\ [][NextEdges]_vars

\* Twice the signed area of the triangle a, b, c.
Cross(a, b, c) ==
    (b[1] - a[1]) * (c[2] - a[2]) - (b[2] - a[2]) * (c[1] - a[1])

\* Nodes 0, 1, 2, 3 in this order are the corners of a strictly convex
\* quadrilateral: walking round it always turns the same way.
ConvexQuadrilateral(P) ==
    LET turns == {Cross(P[1], P[2], P[3]), Cross(P[2], P[3], P[4]),
                  Cross(P[3], P[4], P[1]), Cross(P[4], P[1], P[2])}
    IN  (\A t \in turns : t > 0) \/ (\A t \in turns : t < 0)

IsGraphOf(n, E) ==
    Len(adjacency_matrix) = n /\ adjacency_matrix = AdjacencyOf(n, E)

IsStar ==
    \E c \in 0..(Len(adjacency_matrix) - 1) :
        IsGraphOf(Len(adjacency_matrix), StarEdges(Len(adjacency_matrix), c))

\* C12: intersecting_edges returns a set of two-element sets of edges (i, j),
\* i < j, adjacency_matrix[i][j] = 1, whose two edges share no node; for the
\* 4-cycle 0-1-2-3 drawn as a convex quadrilateral with both diagonals added
\* the result is exactly the pair of diagonals; for a star the result is
\* empty whatever the positions.
C12_IntersectingEdges ==
    pc = "edges_done" =>
        /\ \A pair \in intersecting_edges :
            /\ Cardinality(pair) = 2
            /\ ~SharesNode(pair)
            /\ \A e \in pair :
                /\ e \in NodePairs(Len(adjacency_matrix))
                /\ adjacency_matrix[e[1] + 1][e[2] + 1] = 1
        /\ (IsGraphOf(4, CycleEdges \cup Diagonals) /\ ConvexQuadrilateral(positions))
            => intersecting_edges = {Diagonals}
        /\ IsStar => intersecting_edges = {}

\* The convex quadrilateral with both diagonals.
C12_Witness ==
    /\ pc = "edges_done"
    /\ IsGraphOf(4, CycleEdges \cup Diagonals)
    /\ ConvexQuadrilateral(positions)
    /\ Cardinality(Crossings(edges, positions)) >= 2
    /\ intersecting_edges = {Diagonals}

\* A star two of whose edges were collected by the second loop.
EdgesStarWitness ==
    /\ pc = "edges_done"
    /\ IsStar
    /\ Len(edges) >= 3
    /\ Crossings(edges, positions) /= {}
    /\ intersecting_edges = {}

---------------------------------------------------------------------------
\* Noise arguments of the wrong length.

\* The parameter count of a noise kind.
ExpectedParams(kind) ==
    IF kind = "circuit" THEN NoiseCircuitParams ELSE NoiseQubitParams

\* A number, or a vector of n values.
WellFormedNoise(arg, n) ==
    arg.kind = "scalar" \/ (arg.kind = "vector" /\ Len(arg.v) = n)

\* The noise argument `kind` is a vector of the wrong length and the other
\* three are numbers or vectors of the right length.
OnlyBadLength(kind) ==
    /\ noise_args[kind].kind = "vector"
    /\ Len(noise_args[kind].v) /= ExpectedParams(kind)
    /\ \A other \in NoiseKinds \ {kind} :
        WellFormedNoise(noise_args[other], ExpectedParams(other))

\* Construction ends in the length assertion of `kind`, its message naming
\* the expected count, with nothing appended to the circuit.
LengthMismatch(kind) ==
    /\ pc \in {"start", "error"}
    /\ circuit = circuit_arg
    /\ pc = "error" =>
        /\ err.type = "AssertionError"
        /\ err.expected = ExpectedParams(kind)

\* C13: for each of the four noise parameters, whatever form (number or
\* right-length vector) the other three take, a vector of another length
\* makes construction fail with the length-mismatch error that names the
\* expected count (15 for noise_circuit, 3 for the others), before any
\* instruction is appended.
C13_BadLengthRejected ==
    \A kind \in NoiseKinds : OnlyBadLength(kind) => LengthMismatch(kind)

\* The same, leaving out noise_x_check with a number for noise_z_check.
NoiseBadLengthShown ==
    \A kind \in NoiseKinds :
        (/\ OnlyBadLength(kind)
         /\ kind = "x_check" => HasLen(noise_args.z_check))
        => LengthMismatch(kind)

---------------------------------------------------------------------------
\* Stored noise.

\* self.noise_<kind>.
StoredNoise(kind) ==
    IF kind = "circuit" THEN noise_circuit
    ELSE IF kind = "data" THEN noise_data
    ELSE IF kind = "z_check" THEN noise_z_check
    ELSE noise_x_check

\* C14: a noise vector of the expected length (15 for noise_circuit, 3 for
\* the others) is stored unchanged, same length, same values, same order; a
\* number p is stored as a vector of the expected length whose entries all
\* equal p/15 or p/3; normalizing a stored vector again returns it unchanged.
C14_NormalizeIdempotent ==
    \A kind \in NoiseKinds :
        LET arg == noise_args[kind]
            n == ExpectedParams(kind)
            stored == StoredNoise(kind)
            again == NormalizeOne(VectorArg(stored.v), n, VectorArg(stored.v))
        IN  ~stored.none =>
                /\ Len(stored.v) = n
                /\ arg.kind = "vector" => stored.v = arg.v
                /\ arg.kind = "scalar" => \A j \in 1..n : stored.v[j] * n = arg.p
                /\ again.err = NoError
                /\ again.val = stored.v

\* A build with a vector for the gate noise and a non-zero number for the
\* data noise.
C14_Witness ==
    /\ pc = "done"
    /\ noise_args.circuit = VectorArg(Arange(NoiseCircuitParams))
    /\ noise_circuit = Stored(Arange(NoiseCircuitParams))
    /\ noise_args.data = ScalarArg(30)
    /\ noise_data = Stored(<<10, 10, 10>>)
    /\ noise_args.x_check = VectorArg(Arange(NoiseQubitParams))

---------------------------------------------------------------------------
\* Roles.

\* The number of role lists that hold qubit q.
RoleCount(q) ==
    Cardinality({j \in 1..3 :
        InSeq(q, <<data_qubits, z_check_qubits, x_check_qubits>>[j])})

RepRolesAssigned ==
    code = "repetition_code" /\ pc \notin {"start", "dispatch", "error"}

\* C15: repetition code, distance d >= 1: there are exactly 2d+1 qubits,
\* numbered 0..2d; the d+1 even ones are the data qubits, the d odd ones the
\* Z-checks, there is no X-check, and every qubit has exactly one role.
C15_RepRoles ==
    RepRolesAssigned =>
        /\ distance >= 1
        /\ Len(qubits) = 2 * distance + 1
        /\ \A j \in 1..Len(qubits) : qubits[j] = j - 1
        /\ Len(data_qubits) = distance + 1
        /\ \A j \in 1..Len(data_qubits) : data_qubits[j] = 2 * (j - 1)
        /\ Len(z_check_qubits) = distance
        /\ \A j \in 1..Len(z_check_qubits) : z_check_qubits[j] = 2 * j - 1
        /\ x_check_qubits = <<>>
        /\ \A j \in 1..Len(qubits) : RoleCount(qubits[j]) = 1

C15_Witness ==
    /\ code = "repetition_code"
    /\ pc = "done"
    /\ distance = 3
    /\ data_qubits = <<0, 2, 4, 6>>
    /\ z_check_qubits = <<1, 3, 5>>

---------------------------------------------------------------------------
\* Unknown families.

KnownFamilies ==
    {"repetition_code", "surface_code", "hypergraph_product_code"}

\* C16: a code string whose family part (before the optional ":") is none of
\* repetition_code, surface_code, hypergraph_product_code: construction
\* fails with an error and appends no instruction to the circuit.
C16_UnknownFamilyRejected ==
    code \notin KnownFamilies =>
        /\ pc \in {"start", "dispatch", "error"}
        /\ circuit = circuit_arg
        /\ qubits = <<>>
        /\ pc = "error" =>
            /\ err /= NoError
            /\ (\A kind \in NoiseKinds :
                    WellFormedNoise(noise_args[kind], ExpectedParams(kind)))
                => err = ValueError

C16_Witness ==
    /\ code = "color_code"
    /\ subcode = "z_memory"
    /\ pc = "error"
    /\ err = ValueError
    /\ circuit_arg /= <<>>
    /\ circuit = circuit_arg

---------------------------------------------------------------------------
\* Lookbacks and the start of the measurement record.

\* Every offset of every DETECTOR and OBSERVABLE_INCLUDE appended so far
\* names a position of the record at or after its start.
NoLookbackBeforeStart ==
    LET st == Stream(circuit, tag)
    IN  \A n \in 1..Len(circuit) :
            circuit[n].name \in {"DETECTOR", "OBSERVABLE_INCLUDE"} =>
                \A j \in 1..Len(circuit[n].targets) :
                    Position(st, n, circuit[n].targets[j]) >= 0

\* C17: repetition code (distance >= 1) and surface code (odd x odd scale,
\* z_memory or x_memory), any round count >= 0: every offset of every
\* detector and of the logical observable, resolved against the length of
\* the measurement record where it is emitted, is a position >= 0.
C17_NoLookbackBeforeStart ==
    code \in {"repetition_code", "surface_code"} => NoLookbackBeforeStart

\* The same for builds of at least one round.
LookbacksInRecordWithRounds ==
    (code \in {"repetition_code", "surface_code"} /\ rounds >= 1)
        => NoLookbackBeforeStart

\* The same for builds of no round, the surface code's x_memory excepted.
LookbacksInRecordNoRound ==
    (code \in {"repetition_code", "surface_code"} /\ rounds = 0
     /\ subcode /= "x_memory")
        => NoLookbackBeforeStart

---------------------------------------------------------------------------
\* The order of events in a surface-code round.

OtherChecks ==
    IF subcode = "z_memory" THEN x_check_qubits
    ELSE IF subcode = "x_memory" THEN z_check_qubits
    ELSE <<>>

\* The measurements and detectors of round r, in the order of emission.
RoundEvents(r) ==
    LET at == SelectSeq([n \in 1..Len(circuit) |-> n],
                        LAMBDA n : tag[n] = r /\ circuit[n].name \in {"MR", "M", "DETECTOR"})
    IN  [j \in 1..Len(at) |-> circuit[at[j]]]

IsMR(ins, targets) ==
    ins.name = "MR" /\ ins.targets = targets

\* events[from..to] are all detectors.
AllDetectors(events, from, to) ==
    \A j \in from..to : events[j].name = "DETECTOR"

RoundEntries(r) ==
    LET st == Stream(circuit, tag)
    IN  Cardinality({j \in 1..Len(st) : st[j].round = r})

\* C18: in every surface-code round, z_memory and x_memory alike: the active
\* basis's checks are measured and reset, then the round's detectors are
\* emitted, then the other basis's checks are measured and reset; each round
\* appends len(z_check_qubits) + len(x_check_qubits) stream entries.
C18_SurfRoundOrder ==
    (SurfRoundsEmitted /\ subcode \in {"z_memory", "x_memory"}) =>
        \A r \in 1..rounds :
            LET events == RoundEvents(r)
                n == Len(ActiveChecks)
            IN  /\ Len(events) = n + 2
                /\ IsMR(events[1], ActiveChecks)
                /\ AllDetectors(events, 2, n + 1)
                /\ IsMR(events[n + 2], OtherChecks)
                /\ RoundEntries(r) = Len(z_check_qubits) + Len(x_check_qubits)

\* C18 as amended: in every surface-code round the Z checks are measured and
\* reset first and the X checks second, in both sub-variants; the round's
\* detectors, one per active check, directly follow the measurement of the
\* active basis: between the two measurements in z_memory, after both in
\* x_memory; each round appends len(z_check_qubits) + len(x_check_qubits)
\* stream entries.
C18_SurfRoundOrderZFirst ==
    (SurfRoundsEmitted /\ subcode \in {"z_memory", "x_memory"}) =>
        \A r \in 1..rounds :
            LET events == RoundEvents(r)
                n == Len(ActiveChecks)
            IN  /\ Len(events) = n + 2
                /\ IsMR(events[1], z_check_qubits)
                /\ subcode = "z_memory" =>
                    /\ AllDetectors(events, 2, n + 1)
                    /\ IsMR(events[n + 2], x_check_qubits)
                /\ subcode = "x_memory" =>
                    /\ IsMR(events[2], x_check_qubits)
                    /\ AllDetectors(events, 3, n + 2)
                /\ RoundEntries(r) = Len(z_check_qubits) + Len(x_check_qubits)

\* An x_memory build of two rounds whose second round measures the Z checks,
\* then the X checks, then emits the detectors.
C18_Witness ==
    /\ code = "surface_code"
    /\ subcode = "x_memory"
    /\ scale = <<3, 3>>
    /\ rounds = 2
    /\ pc = "done"
    /\ Len(RoundEvents(2)) = 4
    /\ IsMR(RoundEvents(2)[1], <<1, 7>>)
    /\ IsMR(RoundEvents(2)[2], <<3, 5>>)
    /\ RoundEvents(2)[4].name = "DETECTOR"

---------------------------------------------------------------------------
\* The entangling gates of a surface-code round.

\* The (control, target) pairs of the instructions named `name` of one round
\* that target check q, in order, and where they stand in the round.
PairsOn(name, q) ==
    LET at == SelectSeq([n \in 1..Len(body) |-> n],
                        LAMBDA n : /\ body[n].name = name
                                   /\ Len(body[n].targets) = 2
                                   /\ body[n].targets[2] = q)
    IN  [at |-> at, pairs |-> [j \in 1..Len(at) |-> body[at[j]].targets]]

\* The gates of check q: one per lattice neighbour of q, each neighbour a
\* data qubit of the lattice, and the gate noise on the same pairs, after
\* the gates.
GatesMatchLattice(q) ==
    LET gates == PairsOn("CNOT", q)
        noise == PairsOn("PAULI_CHANNEL_2", q)
        controls == {gates.pairs[j][1] : j \in 1..Len(gates.pairs)}
    IN  /\ controls = LatticeNeighbours(q, scale)
        /\ Len(gates.pairs) = Cardinality(controls)
        /\ \A c \in controls :
            /\ c \in 0..(scale[1] * scale[2] - 1)
            /\ InSeq(c, data_qubits)
        /\ IF noise_circuit.none
           THEN noise.pairs = <<>>
           ELSE /\ noise.pairs = gates.pairs
                /\ \A a \in 1..Len(gates.at), b \in 1..Len(noise.at) :
                    gates.at[a] < noise.at[b]

\* Every gate of the round targets a check, and every check has the gates of
\* its lattice neighbours.
RoundGatesMatchLattice ==
    /\ \A n \in 1..Len(body) :
        body[n].name \in {"CNOT", "PAULI_CHANNEL_2"} =>
            InSeq(body[n].targets[2], z_check_qubits \o x_check_qubits)
    /\ \A j \in 1..Len(z_check_qubits) : GatesMatchLattice(z_check_qubits[j])
    /\ \A j \in 1..Len(x_check_qubits) : GatesMatchLattice(x_check_qubits[j])

\* The round `body` has been appended to self.circuit at least once.
SurfRoundBuilt ==
    SurfRoundsEmitted /\ rounds >= 1

\* C19: surface code, every odd x odd scale, a dimension of 1 included: in
\* each round every entangling gate targets a check qubit from a data qubit
\* of the lattice that is the check's horizontal or vertical neighbour; a
\* Z check uses both horizontal neighbours and its vertical neighbours inside
\* the lattice, an X check both vertical neighbours and its horizontal
\* neighbours inside the lattice; with gate noise enabled the two-qubit
\* channels of a check are on the same (control, target) pairs, after its
\* gates.
C19_SurfGates ==
    SurfRoundBuilt => RoundGatesMatchLattice

\* The same for lattices of at least three rows and three columns.
SurfGatesWide ==
    (SurfRoundBuilt /\ scale[1] >= 3 /\ scale[2] >= 3) => RoundGatesMatchLattice

---------------------------------------------------------------------------
\* The logical observable of the surface code.

RowOf(q, sc) ==
    q \div sc[2]

ColOf(q, sc) ==
    q % sc[2]

\* C20: surface code, any odd x odd scale (R, C): there is one logical
\* observable, tagged 0, and every target of it is a final data-qubit
\* measurement, never a check measurement; in z_memory it has R \div 2 + 1
\* targets, one in each even row, all in one column, consecutive offsets
\* (C \div 2 + 1) + (C \div 2) apart; in x_memory its targets are the
\* C \div 2 + 1 most recent measurements, the data qubits of the last row.
C20_SurfObservable ==
    (code = "surface_code" /\ pc = "done" /\ subcode \in {"z_memory", "x_memory"}) =>
        LET st == Stream(circuit, tag)
            obs == SelectSeq([n \in 1..Len(circuit) |-> n],
                             LAMBDA n : circuit[n].name = "OBSERVABLE_INCLUDE")
            n == obs[1]
            t == circuit[n].targets
            hit == [j \in 1..Len(t) |-> Resolve(st, n, t[j])]
            R == scale[1]
            C == scale[2]
        IN  /\ Len(obs) = 1
            /\ circuit[n].args = <<0>>
            /\ \A j \in 1..Len(t) :
                /\ hit[j].round = rounds + 1
                /\ InSeq(hit[j].qubit, data_qubits)
                /\ ~InSeq(hit[j].qubit, z_check_qubits \o x_check_qubits)
            /\ subcode = "z_memory" =>
                /\ Len(t) = R \div 2 + 1
                /\ {RowOf(hit[j].qubit, scale) : j \in 1..Len(t)}
                    = {r \in 0..(R - 1) : r % 2 = 0}
                /\ \A a, b \in 1..Len(t) :
                    ColOf(hit[a].qubit, scale) = ColOf(hit[b].qubit, scale)
                /\ \A j \in 1..(Len(t) - 1) :
                    t[j] - t[j + 1] = (C \div 2 + 1) + (C \div 2)
            /\ subcode = "x_memory" =>
                /\ t = [j \in 1..(C \div 2 + 1) |-> -j]
                /\ \A j \in 1..Len(t) : Position(st, n, t[j]) = Len(st) - j
                /\ {hit[j].qubit : j \in 1..Len(t)}
                    = {q \in 0..(R * C - 1) :
                        RowOf(q, scale) = R - 1 /\ InSeq(q, data_qubits)}

\* A z_memory build on five rows: the observable names one data measurement
\* in each of the rows 4, 2 and 0.
C20_Witness ==
    /\ code = "surface_code"
    /\ subcode = "z_memory"
    /\ scale = <<5, 3>>
    /\ rounds >= 1
    /\ pc = "done"
    /\ circuit[Len(circuit)] = Ins("OBSERVABLE_INCLUDE", <<-2, -5, -8>>, <<0>>)

\* An x_memory build: the observable names the three data qubits of the last
\* row.
SurfObservableXWitness ==
    /\ code = "surface_code"
    /\ subcode = "x_memory"
    /\ scale = <<3, 5>>
    /\ pc = "done"
    /\ circuit[Len(circuit)] = Ins("OBSERVABLE_INCLUDE", <<-1, -2, -3>>, <<0>>)

---------------------------------------------------------------------------
\* The roles of the surface code.

Increasing(s) ==
    \A a, b \in 1..Len(s) : a < b => s[a] < s[b]

SeqSet(s) ==
    {s[j] : j \in 1..Len(s)}

SurfRolesAssigned ==
    code = "surface_code" /\ pc \notin {"start", "dispatch", "error"}

\* C21: surface code, any odd x odd scale (R, C): qubit row*C + col is a
\* data qubit when row and col have the same parity, a Z check when row is
\* even and col odd, an X check when row is odd and col even; the three role
\* lists are pairwise disjoint, together cover 0..R*C-1, and each is in
\* increasing order; there are (R \div 2 + 1)*(C \div 2) Z checks and
\* (R \div 2)*(C \div 2 + 1) X checks.
C21_SurfRoles ==
    SurfRolesAssigned =>
        LET R == scale[1]
            C == scale[2]
        IN  /\ R % 2 = 1 /\ C % 2 = 1
            /\ \A r \in 0..(R - 1), c \in 0..(C - 1) :
                LET q == r * C + c
                IN  /\ InSeq(q, data_qubits) <=> (r % 2 = c % 2)
                    /\ InSeq(q, z_check_qubits) <=> (r % 2 = 0 /\ c % 2 = 1)
                    /\ InSeq(q, x_check_qubits) <=> (r % 2 = 1 /\ c % 2 = 0)
            /\ SeqSet(data_qubits) \cap SeqSet(z_check_qubits) = {}
            /\ SeqSet(data_qubits) \cap SeqSet(x_check_qubits) = {}
            /\ SeqSet(z_check_qubits) \cap SeqSet(x_check_qubits) = {}
            /\ SeqSet(data_qubits) \cup SeqSet(z_check_qubits) \cup SeqSet(x_check_qubits)
                = 0..(R * C - 1)
            /\ Increasing(data_qubits)
            /\ Increasing(z_check_qubits)
            /\ Increasing(x_check_qubits)
            /\ Len(z_check_qubits) = (R \div 2 + 1) * (C \div 2)
            /\ Len(x_check_qubits) = (R \div 2) * (C \div 2 + 1)

C21_Witness ==
    /\ code = "surface_code"
    /\ scale = <<3, 5>>
    /\ pc = "done"
    /\ z_check_qubits = <<1, 3, 11, 13>>
    /\ x_check_qubits = <<5, 7, 9>>
    /\ Len(data_qubits) = 8

---------------------------------------------------------------------------
\* The function ClassicalPcm, used by the hypergraph-product construction,
\* returns what the stepwise classical_pcm returns, and fails where it fails.
PcmFunctionAgrees ==
    /\ pc = "pcm_done" =>
         /\ ClassicalPcm(clist).err = NoError
         /\ ClassicalPcm(clist).array = result
    /\ pc = "error" => ClassicalPcm(clist).err = err

\* r and n of a classical list: its number of "C" and of "B" markers.
NumChecks(cl) ==
    CountOf(cl, "C")

NumBits(cl) ==
    CountOf(cl, "B")

\* A hypergraph-product call whose lists index valid bits and whose
\* parameters carry the position map.
HgpCallValid ==
    /\ code = "hypergraph_product_code"
    /\ pos = "given"
    /\ ClassicalPcm(clist1).err = NoError
    /\ ClassicalPcm(clist2).err = NoError

\* The role lists partition 0..(r1+n1)*(r2+n2)-1 with the stated sizes.
HgpRolesAssigned ==
    LET r1 == NumChecks(clist1)
        n1 == NumBits(clist1)
        r2 == NumChecks(clist2)
        n2 == NumBits(clist2)
    IN  /\ qubits = Arange((r1 + n1) * (r2 + n2))
        /\ \A q \in 0..((r1 + n1) * (r2 + n2) - 1) : RoleCount(q) = 1
        /\ Len(x_check_qubits) = r1 * n2
        /\ Len(z_check_qubits) = n1 * r2
        /\ Len(data_qubits) = n1 * n2 + r1 * r2

\* HX and HZ have one row per check qubit and one column per data qubit.
HgpMatricesFit ==
    /\ Len(HX) = Len(x_check_qubits)
    /\ Len(HZ) = Len(z_check_qubits)
    /\ \A j \in 1..Len(HX) : Len(HX[j]) = Len(data_qubits)
    /\ \A j \in 1..Len(HZ) : Len(HZ[j]) = Len(data_qubits)

\* C22: a hypergraph-product model built from clist1 and clist2, with H1
\* (r1 x n1) and H2 (r2 x n2) their matrices, has exactly (r1+n1)*(r2+n2)
\* qubits, each in exactly one role; there are r1*n2 X checks (the rows of
\* HX), n1*r2 Z checks (the rows of HZ) and n1*n2 + r1*r2 data qubits (the
\* columns of HX and of HZ); the construction appends no instruction.
C22_HgpRoles ==
    HgpCallValid =>
        /\ pc /= "error"
        /\ pc \in {"hgp_product", "done"} =>
             HgpRolesAssigned /\ circuit = circuit_arg
        /\ pc = "done" => HgpMatricesFit

\* Both lists hold a check and a bit: every matrix is two-dimensional.
HgpListsWithChecks ==
    /\ NumChecks(clist1) >= 1
    /\ NumBits(clist1) >= 1
    /\ NumChecks(clist2) >= 1
    /\ NumBits(clist2) >= 1

\* On lists that hold a check and a bit the construction ends with the
\* counts of C22.
HgpRolesWithChecks ==
    HgpCallValid /\ HgpListsWithChecks =>
        /\ pc /= "error"
        /\ pc \in {"hgp_product", "done"} =>
             HgpRolesAssigned /\ circuit = circuit_arg
        /\ pc = "done" => HgpMatricesFit

HgpBuiltWitness ==
    /\ HgpCallValid
    /\ pc = "done"
    /\ clist1 = <<StrTok("B"), StrTok("C"), IntTok(0)>>
    /\ clist2 = <<StrTok("B"), StrTok("C"), IntTok(0)>>
    /\ data_qubits = <<0, 3>>
    /\ z_check_qubits = <<1>>
    /\ x_check_qubits = <<2>>

\* A list without a "C" gives a matrix of shape (0,): no qubit is created and
\* hypergraph_pcm cannot unpack the shape.
HgpNoCheckFails ==
    ~(/\ HgpCallValid
      /\ clist1 = <<StrTok("B"), StrTok("B")>>
      /\ clist2 = <<StrTok("B"), StrTok("C"), IntTok(0)>>
      /\ pc = "error"
      /\ err = ValueError
      /\ qubits = <<>>)

\* A call without the position map stops in _hypergraph_product_code.
HgpMissingPosFails ==
    code = "hypergraph_product_code" /\ pos = "missing" => pc /= "done"

====
